---- MODULE Spec2Model ----
(***************************************************************************)
(* A model of s3gof3r's ordered ranged-GET pipeline (getter): the          *)
(* dispatcher initChunks, the worker goroutines (worker, retryGetChunk,    *)
(* getChunk), the consumer's Read / nextChunk / Close, and the progress    *)
(* query GetterController.BytesDone.                                       *)
(*                                                                         *)
(* Goroutines are modelled at the granularity of their accesses to shared  *)
(* state: one action per channel operation, per critical section of a      *)
(* mutex and per write of a shared field.  The worker goroutines are       *)
(* anonymous, so they are kept as a bag of local states.                   *)
(***************************************************************************)
EXTENDS Integers, Sequences, FiniteSets, Bags, TLC

\* ------------------------------------------------------------------ bounds
MaxContentLen == 4
MaxPartSize == 2
MaxConcurrency == 2
MaxNTry == 2
MaxReadLen == 2
MaxLongLen == 6
MaxProgressLen == 2
MaxAsyncLen == 2
CopyBufLen == 1
MaxPutLen == 3
MaxNewLen == 2
MaxBelowZero == 1
MaxLiveLen == 4
MaxLiveConcurrency == 3
MaxTicks == 3
MaxSpeedBytes == 2
MaxSourceLen == 3
MaxTrackedRead == 2
MaxStack == 2
RaceBufLen == 2
MaxRaceLen == 2
MaxSharedLen == 2

\* ------------------------------------------------------- program constants
qWaitMax == 2

\* the period of the supervisor loop, in milliseconds
loopPeriod == 40

\* rollingAvg's smoothingFactor 0.05, in hundredths
smoothingFactor == 5

\* ----------------------------------------------------------------- helpers
min64First(a, b) == a

min64(a, b) == IF a < b THEN a ELSE b

max64(a, b) == IF a > b THEN a ELSE b

maxFirst(a, b) == a

max(a, b) == IF a > b THEN a ELSE b

\* Error values. Every error is a record of the same shape so that any two
\* can be compared; a and b carry the numbers an error message names.
Error(kind, a, b) == [kind |-> kind, a |-> a, b |-> b]

nil == Error("nil", 0, 0)

EINVAL == Error("EINVAL", 0, 0)

EOF == Error("EOF", 0, 0)

\* fmt.Errorf("read error: %d bytes read. expected: %d", bytesRead, contentLen)
ShortReadError(n, expected) == Error("read error", n, expected)

\* the error of the last failed attempt of a chunk: a fresh error value per
\* chunk (transport error, RespError, or "chunk %d: Expected ...")
ChunkError(id) == Error("chunk", id, 0)

TooManyBytesError(expected, n) == Error("too many bytes", expected, n)

NoMoreChunksError(expected, n) == Error("no more chunks", expected, n)

Md5MismatchError == Error("MD5 mismatch", 0, 0)

Md5NotFoundError == Error("MD5 check failed", 0, 0)

\* A chunk descriptor; header Range is bytes=start-(start+size-1)
Chunk(id, start, size) == [id |-> id, start |-> start, size |-> size]

NoChunk == Chunk(-1, 0, 0)

\* the bytes of the object held by a chunk's buffer after a full read:
\* byte j of the buffer is byte start+j of the object
ChunkBytes(c, from, n) == [j \in 1..n |-> c.start + from + j - 1]

\* crypto/md5 as an injective digest of the byte sequence written to it
\* (collisions are outside the model); Sum formats it as lowercase hex
Md5Sum(bytes) == <<"md5", bytes>>

ObjectBytes(len) == [j \in 1..len |-> j - 1]

VARIABLES
    bufsz, contentLen, chunkTotal, NTry, Concurrency, Md5Check,
    err, chunkID, rChunk, bytesRead, cIdx,
    qWait, qWaitLen, quit, closed, spQuit,
    activeChunks, rwrapper, md5,
    dispI, dispId, getChClosed,
    workers, condL,
    rd, ret, out, returned, teardowns, md5Gets, given,
    bd, put, firstErr,
    cp, forced, tomb, State, Reason, lp, sp, wr, wrStop, aLock, mp, ng,
    st, tr, pa, cl

\* what is apart from a running pipeline: the controller's speed tracker and
\* the caller of Speed (st), a tracked reader on its own (tr), the call of
\* PutAsync (pa) and a second task holding the getter's handle (cl)
apart == <<st, tr, pa, cl>>

\* the configuration of the getter, and the call of newGetter that made it
\* (ng), which is over once the getter runs
conf == <<bufsz, contentLen, chunkTotal, NTry, Concurrency, Md5Check, ng,
          apart>>

gvars == <<err, chunkID, rChunk, bytesRead, cIdx, qWait, qWaitLen, quit, closed,
           spQuit, activeChunks, rwrapper, md5, dispI, dispId, getChClosed,
           workers, condL>>

cvars == <<rd, ret, out, returned, teardowns, md5Gets, given>>

\* the controller: tomb, State and Reason, the supervisor loop (lp), a caller
\* of Stop (sp), the bytes written to the consumer's writer (wr, and wrStop,
\* their number when Stop returned), activeChunksLock (aLock) and the
\* multipart upload of a putter (mp)
avars == <<tomb, State, Reason, lp, sp, wr, wrStop, aLock, mp>>

\* cp: the position of the caller of Read and Close when it is the copy task
\* of GetAsync; forced: the chunks whose tracked reader was force-closed
kvars == <<cp, forced, avars>>

xvars == <<bd, put, kvars>>

vars == <<conf, gvars, cvars, xvars, firstErr>>

\* ----------------------------------------------------------- worker states
Worker(pc, c, i) == [pc |-> pc, c |-> c, i |-> i]

IdleWorker == Worker("recv", NoChunk, 0)

\* the bag workers with one copy of w replaced by one copy of w2
Step(w, w2) == (workers (-) SetToBag({w})) (+) SetToBag({w2})

WorkerSet == BagToSet(workers)

At(pc) == {w \in WorkerSet : w.pc = pc}

\* --------------------------------------------------------- consumer states
Reader(pc, len, nw, c) == [pc |-> pc, len |-> len, nw |-> nw, c |-> c]

IdleReader == Reader("idle", 0, 0, NoChunk)

Ret(op, len, n, e) == [op |-> op, len |-> len, n |-> n, err |-> e]

\* ------------------------------------------------------------------- Init
\* the record of a call of newGetter: its position, the Config passed in,
\* the requests sent, the response's status and ContentLength, the error
\* returned, and what the call has started
Call(pc, c) == [pc |-> pc, c |-> c, try |-> 0, status |-> 0, length |-> 0,
                err |-> nil, pool |-> FALSE, dispatchers |-> 0]

\* newGetter has returned the getter; nothing of the call is looked at
NoCall == Call("none", [PartSize |-> 1, NTry |-> 1, Concurrency |-> 1])

\* no speed tracker is looked at: Speed was not called
NoSpeed == [kind |-> "none", nil |-> FALSE, Speed |-> 0, now |-> 0,
            ret |-> -1, term |-> FALSE]

\* no tracked reader on its own
NoTracked == [kind |-> "none", closed |-> FALSE, bytesdone |-> 0, pos |-> 0,
              len |-> 0, base |-> 0, sum |-> 0, pc |-> "idle", depth |-> 0,
              ret |-> [op |-> "none", n |-> 0, err |-> nil, under |-> FALSE]]

\* PutAsync is not being called
NoPutCall == [pc |-> "none", putter |-> TRUE, err |-> nil, ret |-> nil,
              loops |-> 0, copies |-> 0]

\* nothing apart from the pipeline is there
NothingApart ==
    /\ st = NoSpeed
    /\ tr = NoTracked
    /\ pa = NoPutCall
    /\ cl = "none"

\* newGetter: the getter after a successful construction
GetterMade(PartSize, ntry, concurrency, md5check, length) ==
    /\ bufsz = max64(PartSize, 1)
    /\ NTry = max(ntry, 1)
    /\ Concurrency = max(concurrency, 1)
    /\ Md5Check = md5check
    /\ contentLen = length
    /\ chunkTotal = (length + max64(PartSize, 1) - 1) \div max64(PartSize, 1)
    /\ err = nil
    /\ chunkID = 0
    /\ rChunk = NoChunk
    /\ bytesRead = 0
    /\ cIdx = 0
    /\ qWait = {}
    /\ qWaitLen = 0
    /\ quit = FALSE
    /\ closed = FALSE
    /\ spQuit = FALSE
    /\ activeChunks = {}
    /\ rwrapper = [id \in 0..(chunkTotal - 1) |-> -1]
    /\ md5 = <<>>
    /\ dispI = 0
    /\ dispId = 0
    /\ getChClosed = FALSE
    /\ workers = [w \in {IdleWorker} |-> max(concurrency, 1)]
    /\ condL = "free"
    /\ ng = NoCall

\* newGetter: the state after a successful construction, the handle held
\* by one task
newGetter(PartSize, ntry, concurrency, md5check, length) ==
    /\ GetterMade(PartSize, ntry, concurrency, md5check, length)
    /\ NothingApart

\* the tomb's reason while nothing has killed it
ErrStillAlive == Error("still alive", 0, 0)

ErrStopped == Error("Stopped", 0, 0)

\* the handle is used directly: no controller, no copy task, no supervisor
NoController ==
    /\ cp = "none"
    /\ forced = {}
    /\ tomb = [reason |-> ErrStillAlive, dead |-> FALSE]
    /\ State = ""
    /\ Reason = ""
    /\ lp = "none"
    /\ sp = "none"
    /\ wr = 0
    /\ wrStop = -1
    /\ aLock = "free"
    /\ mp = <<>>

\* no putter was opened
NoPutter == [open |-> FALSE, closed |-> FALSE, err |-> nil, written |-> 0]

\* no pipeline runs: a getter of an empty object with nothing started
NoPipeline ==
    /\ bufsz = 1 /\ NTry = 1 /\ Concurrency = 1 /\ Md5Check = FALSE
    /\ contentLen = 0 /\ chunkTotal = 0
    /\ err = nil /\ chunkID = 0 /\ rChunk = NoChunk /\ bytesRead = 0 /\ cIdx = 0
    /\ qWait = {} /\ qWaitLen = 0 /\ quit = FALSE /\ closed = FALSE
    /\ spQuit = FALSE /\ activeChunks = {}
    /\ rwrapper = [id \in {} |-> -1]
    /\ md5 = <<>> /\ dispI = 0 /\ dispId = 0 /\ getChClosed = TRUE
    /\ workers = EmptyBag /\ condL = "free"
    /\ ng = NoCall
    /\ rd = Reader("none", 0, 0, NoChunk)
    /\ put = NoPutter
    /\ ret = Ret("none", 0, 0, nil)
    /\ out = <<>>
    /\ returned = 0
    /\ teardowns = 0
    /\ md5Gets = 0
    /\ given = <<"unread", <<>>>>
    /\ bd = [pc |-> "idle", total |-> 0, last |-> 0]
    /\ firstErr = nil

\* GetReader: a getter was constructed; the consumer holds its handle
InitGetter ==
    /\ \E PartSize \in 0..MaxPartSize, ntry \in 0..MaxNTry,
          concurrency \in 0..MaxConcurrency, md5check \in BOOLEAN,
          length \in 0..MaxContentLen :
            newGetter(PartSize, ntry, concurrency, md5check, length)
    /\ rd = IdleReader
    /\ put = NoPutter

\* PutWriter: a putter was constructed instead; there is no getter, hence no
\* worker, no dispatcher and no reader
InitPutter ==
    /\ bufsz = 1 /\ NTry = 1 /\ Concurrency = 1 /\ Md5Check = FALSE
    /\ contentLen = 0 /\ chunkTotal = 0
    /\ err = nil /\ chunkID = 0 /\ rChunk = NoChunk /\ bytesRead = 0 /\ cIdx = 0
    /\ qWait = {} /\ qWaitLen = 0 /\ quit = FALSE /\ closed = FALSE
    /\ spQuit = FALSE /\ activeChunks = {}
    /\ rwrapper = [id \in {} |-> -1]
    /\ md5 = <<>> /\ dispI = 0 /\ dispId = 0 /\ getChClosed = TRUE
    /\ workers = EmptyBag /\ condL = "free"
    /\ rd = Reader("none", 0, 0, NoChunk)
    /\ put = [NoPutter EXCEPT !.open = TRUE]
    /\ ng = NoCall
    /\ NothingApart

Init ==
    /\ InitGetter \/ InitPutter
    /\ ret = Ret("none", 0, 0, nil)
    /\ out = <<>>
    /\ returned = 0
    /\ teardowns = 0
    /\ md5Gets = 0
    /\ given = <<"unread", <<>>>>
    /\ bd = [pc |-> "idle", total |-> 0, last |-> 0]
    /\ firstErr = nil
    /\ NoController

\* ------------------------------------------------------------- dispatcher
\* initChunks: one iteration of the loop, the send on the unbuffered getCh
\* meeting a worker's receive in "for c := range g.getCh"
initChunks(w) ==
    /\ w.pc = "recv"
    /\ ~getChClosed
    /\ dispI < contentLen
    /\ LET size == min64(bufsz, contentLen - dispI)
       IN /\ workers' = Step(w, Worker("reg", Chunk(dispId, dispI, size), 0))
          /\ dispI' = dispI + size
          /\ dispId' = dispId + 1
    /\ UNCHANGED <<conf, err, chunkID, rChunk, bytesRead, cIdx, qWait, qWaitLen,
                   quit, closed, spQuit, activeChunks, rwrapper, md5,
                   getChClosed, condL, cvars, xvars, firstErr>>

\* getCh closed whether or not the loop has reached contentLen
initChunksCloseEarly ==
    /\ ~getChClosed
    /\ getChClosed' = TRUE
    /\ UNCHANGED <<conf, err, chunkID, rChunk, bytesRead, cIdx, qWait, qWaitLen,
                   quit, closed, spQuit, activeChunks, rwrapper, md5,
                   dispI, dispId, workers, condL, cvars, xvars, firstErr>>

\* initChunks: close(g.getCh) after the loop
initChunksClose ==
    /\ ~getChClosed
    /\ dispI >= contentLen
    /\ getChClosed' = TRUE
    /\ UNCHANGED <<conf, err, chunkID, rChunk, bytesRead, cIdx, qWait, qWaitLen,
                   quit, closed, spQuit, activeChunks, rwrapper, md5,
                   dispI, dispId, workers, condL, cvars, xvars, firstErr>>

\* ---------------------------------------------------------------- workers
\* worker: the range loop ends when getCh is closed and drained
workerExit(w) ==
    /\ w.pc = "recv"
    /\ getChClosed
    /\ workers' = Step(w, Worker("done", NoChunk, 0))
    /\ UNCHANGED <<conf, err, chunkID, rChunk, bytesRead, cIdx, qWait, qWaitLen,
                   quit, closed, spQuit, activeChunks, rwrapper, md5,
                   dispI, dispId, getChClosed, condL, cvars, xvars, firstErr>>

workerNoRegister(w) ==
    /\ w.pc = "reg"
    /\ aLock = "free"
    /\ workers' = Step(w, Worker("acquire", w.c, 0))
    /\ UNCHANGED <<conf, err, chunkID, rChunk, bytesRead, cIdx, qWait, qWaitLen,
                   quit, closed, spQuit, activeChunks, rwrapper, md5,
                   dispI, dispId, getChClosed, condL, cvars, xvars, firstErr>>

\* worker: g.activeChunks[c.id] = c under activeChunksLock
worker(w) ==
    /\ w.pc = "reg"
    /\ aLock = "free"
    /\ activeChunks' = activeChunks \cup {w.c.id}
    /\ workers' = Step(w, Worker("acquire", w.c, 0))
    /\ UNCHANGED <<conf, err, chunkID, rChunk, bytesRead, cIdx, qWait, qWaitLen,
                   quit, closed, spQuit, rwrapper, md5,
                   dispI, dispId, getChClosed, condL, cvars, xvars, firstErr>>

\* the buffer pool's acquire: yields a buffer, allocating when none is cached;
\* a pool that was torn down hands out nothing more
bpGet == ~spQuit

\* retryGetChunk: c.b = <-g.sp.get
retryGetChunk(w) ==
    /\ w.pc = "acquire"
    /\ bpGet
    /\ workers' = Step(w, Worker("fetch", w.c, 0))
    /\ UNCHANGED <<conf, err, chunkID, rChunk, bytesRead, cIdx, qWait, qWaitLen,
                   quit, closed, spQuit, activeChunks, rwrapper, md5,
                   dispI, dispId, getChClosed, condL, cvars, xvars, firstErr>>

\* getChunk: the request got a response; c.rwrapper = newReaderWrapper(resp.Body)
getChunkResponse(w) ==
    /\ w.pc = "fetch"
    /\ rwrapper' = [rwrapper EXCEPT ![w.c.id] = 0]
    /\ forced' = forced \ {w.c.id}
    /\ workers' = Step(w, Worker("body", w.c, w.i))
    /\ UNCHANGED <<conf, err, chunkID, rChunk, bytesRead, cIdx, qWait, qWaitLen,
                   quit, closed, spQuit, activeChunks, md5,
                   dispI, dispId, getChClosed, condL, cvars, bd, put, cp, avars,
                   firstErr>>

\* getChunk: io.ReadAtLeast reads n more bytes of the body through the
\* tracked reader, which refuses once it was force-closed; with all c.size
\* bytes read the chunk is ready to publish
getChunkRead(w) ==
    /\ w.pc = "body"
    /\ w.c.id \notin forced
    /\ \E n \in 1..(w.c.size - rwrapper[w.c.id]) :
        /\ rwrapper' = [rwrapper EXCEPT ![w.c.id] = @ + n]
        /\ workers' = Step(w, Worker(IF rwrapper[w.c.id] + n = w.c.size
                                     THEN "send" ELSE "body", w.c, w.i))
    /\ UNCHANGED <<conf, err, chunkID, rChunk, bytesRead, cIdx, qWait, qWaitLen,
                   quit, closed, spQuit, activeChunks, md5,
                   dispI, dispId, getChClosed, condL, cvars, xvars, firstErr>>

GiveUpNoQuitCheck(w) == err' = ChunkError(w.c.id)

\* retryGetChunk, after its last attempt failed: the select on quit
GiveUp(w) ==
    IF quit THEN err' = err ELSE err' = ChunkError(w.c.id)

\* getChunk returns an error (request error, bad status, short body, close
\* error); retryGetChunk retries after the back-off or, after NTry attempts,
\* sets the error unless quit is closed, and the worker takes the next chunk
getChunkError(w) ==
    /\ w.pc \in {"fetch", "body"}
    /\ IF w.i + 1 < NTry
       THEN /\ workers' = Step(w, Worker("fetch", w.c, w.i + 1))
            /\ err' = err
       ELSE /\ workers' = Step(w, IdleWorker)
            /\ GiveUp(w)
    /\ firstErr' = IF firstErr = nil THEN err' ELSE firstErr
    /\ UNCHANGED <<conf, chunkID, rChunk, bytesRead, cIdx, qWait, qWaitLen,
                   quit, closed, spQuit, activeChunks, rwrapper, md5,
                   dispI, dispId, getChClosed, condL, cvars, xvars>>

GateAlwaysOpen == TRUE

\* getChunk: the exit of "for g.qWaitLen >= qWaitMax" with the mutex held:
\* the worker leaves through Unlock when there is room
GateOpen == qWaitLen < qWaitMax

\* getChunk: g.cond.L.Lock() and the loop test, for a worker that has sent
\* its chunk or was woken from cond.Wait. With room it unlocks and returns;
\* without room and closed it returns with the mutex still locked; otherwise
\* it goes on to cond.Wait holding the mutex
getChunkGate(w) ==
    /\ w.pc = "lock"
    /\ condL = "free"
    /\ IF GateOpen
       THEN /\ workers' = Step(w, IdleWorker)
            /\ condL' = "free"
       ELSE IF closed
            THEN /\ workers' = Step(w, IdleWorker)
                 /\ condL' = "leaked"
            ELSE /\ workers' = Step(w, Worker("park", NoChunk, 0))
                 /\ condL' = "held"
    /\ UNCHANGED <<conf, err, chunkID, rChunk, bytesRead, cIdx, qWait, qWaitLen,
                   quit, closed, spQuit, activeChunks, rwrapper, md5,
                   dispI, dispId, getChClosed, cvars, xvars, firstErr>>

\* getChunk: g.cond.Wait() releases the mutex and suspends the worker
getChunkWait(w) ==
    /\ w.pc = "park"
    /\ workers' = Step(w, Worker("wait", NoChunk, 0))
    /\ condL' = "free"
    /\ UNCHANGED <<conf, err, chunkID, rChunk, bytesRead, cIdx, qWait, qWaitLen,
                   quit, closed, spQuit, activeChunks, rwrapper, md5,
                   dispI, dispId, getChClosed, cvars, xvars, firstErr>>

\* ------------------------------------------------------ condition variable
Waiter == Worker("wait", NoChunk, 0)

Woken == Worker("lock", NoChunk, 0)

\* sync.Cond.Signal: wakes one goroutine waiting on the condition, if any;
\* the woken goroutine re-locks the mutex before Wait returns
condSignal(ws) ==
    IF BagIn(Waiter, ws)
    THEN (ws (-) SetToBag({Waiter})) (+) SetToBag({Woken})
    ELSE ws

\* sync.Cond.Broadcast: wakes every goroutine waiting on the condition
condBroadcast(ws) ==
    IF BagIn(Waiter, ws)
    THEN (ws (-) [x \in {Waiter} |-> CopiesIn(Waiter, ws)])
             (+) [x \in {Woken} |-> CopiesIn(Waiter, ws)]
    ELSE ws

\* ------------------------------------------------------------ getter.Read
\* where the caller goes on when a call returns: io.Copy writes what Read
\* returned, the copy task looks at the error of Close; a caller that is not
\* the copy task is free to call again
Resume(pc) ==
    IF pc = "reading" THEN "write"
    ELSE IF pc = "closing" THEN "kill"
    ELSE pc

\* what a call of Read or Close hands back to the consumer
Return(op, len, n, e) ==
    /\ ret' = Ret(op, len, n, e)
    /\ returned' = returned + n
    /\ rd' = IdleReader
    /\ cp' = Resume(cp)

ReadEntryErrorFirst == IF err # nil THEN err ELSE IF closed THEN EINVAL ELSE nil

\* Read: entry. A closed getter answers EINVAL, a getter with an error
\* answers the error, otherwise the copy loop starts with nw = 0
ReadEntryError == IF closed THEN EINVAL ELSE err

Read(len) ==
    /\ rd.pc = "idle"
    /\ IF ReadEntryError # nil
       THEN Return("Read", len, 0, ReadEntryError)
       ELSE /\ rd' = Reader("loop", len, 0, NoChunk)
            /\ UNCHANGED <<ret, returned, cp>>
    /\ UNCHANGED <<conf, gvars, out, teardowns, md5Gets, given, bd, put, forced,
                   avars, firstErr>>

copyRoom(room, avail) == room

\* Read: n := copy(p[nw:], g.rChunk.b[g.cIdx:g.rChunk.size])
copy(room, avail) == IF room < avail THEN room ELSE avail

\* Read: one iteration of "for nw < len(p)" up to the end of the copy
ReadLoop ==
    /\ rd.pc = "loop"
    /\ IF rd.nw >= rd.len
       THEN /\ Return("Read", rd.len, rd.nw, nil)
            /\ UNCHANGED <<gvars, out>>
       ELSE IF bytesRead = contentLen
       THEN /\ Return("Read", rd.len, rd.nw, EOF)
            /\ UNCHANGED <<gvars, out>>
       ELSE IF bytesRead > contentLen
       THEN /\ Return("Read", rd.len, rd.nw, TooManyBytesError(contentLen, bytesRead))
            /\ UNCHANGED <<gvars, out>>
       ELSE IF chunkID >= chunkTotal
       THEN /\ Return("Read", rd.len, rd.nw, NoMoreChunksError(contentLen, bytesRead))
            /\ UNCHANGED <<gvars, out>>
       ELSE IF rChunk = NoChunk
       THEN /\ rd' = [rd EXCEPT !.pc = "next"]
            /\ UNCHANGED <<gvars, out, ret, returned, cp>>
       ELSE LET n == copy(rd.len - rd.nw, rChunk.size - cIdx)
            IN /\ out' = out \o ChunkBytes(rChunk, cIdx, n)
               /\ cIdx' = cIdx + n
               /\ bytesRead' = bytesRead + n
               /\ rd' = [rd EXCEPT !.nw = @ + n,
                                   !.pc = IF cIdx + n >= rChunk.size
                                          THEN "complete" ELSE "loop"]
               /\ UNCHANGED <<err, chunkID, rChunk, qWait, qWaitLen, quit, closed,
                              spQuit, activeChunks, rwrapper, md5, dispI, dispId,
                              getChClosed, workers, condL, ret, returned, cp>>
    /\ UNCHANGED <<conf, teardowns, md5Gets, given, bd, put, forced, avars,
                   firstErr>>

\* Read: chunk complete: the chunk leaves activeChunks, its buffer goes back
\* to the pool, and the chunk pointer advances
ReadChunkComplete ==
    /\ rd.pc = "complete"
    /\ aLock = "free"
    /\ activeChunks' = activeChunks \ {rChunk.id}
    /\ chunkID' = chunkID + 1
    /\ rChunk' = NoChunk
    /\ rd' = [rd EXCEPT !.pc = "loop"]
    /\ UNCHANGED <<conf, err, bytesRead, cIdx, qWait, qWaitLen, quit, closed,
                   spQuit, rwrapper, md5, dispI, dispId, getChClosed, workers,
                   condL, ret, out, returned, teardowns, md5Gets, given, xvars, firstErr>>

qWaitLookupAny(q, id) == IF q # {} THEN CHOOSE c \in q : TRUE ELSE NoChunk

\* nextChunk: c := g.qWait[g.chunkID] (NoChunk for nil)
qWaitLookup(q, id) ==
    IF \E c \in q : c.id = id THEN CHOOSE c \in q : c.id = id ELSE NoChunk

\* nextChunk: the head of the loop: the needed chunk is taken out of qWait
\* when it is there, otherwise the reader goes to the select
nextChunk ==
    /\ rd.pc = "next"
    /\ LET c == qWaitLookup(qWait, chunkID)
       IN IF c # NoChunk
          THEN /\ qWait' = qWait \ {c}
               /\ rd' = [rd EXCEPT !.pc = "dec", !.c = c]
          ELSE /\ rd' = [rd EXCEPT !.pc = "select"]
               /\ UNCHANGED qWait
    /\ UNCHANGED <<conf, err, chunkID, rChunk, bytesRead, cIdx, qWaitLen, quit,
                   closed, spQuit, activeChunks, rwrapper, md5, dispI, dispId,
                   getChClosed, workers, condL, ret, out, returned, teardowns,
                   md5Gets, given, xvars, firstErr>>

\* nextChunk: g.qWaitLen-- under the mutex
nextChunkDec ==
    /\ rd.pc = "dec"
    /\ condL = "free"
    /\ qWaitLen' = qWaitLen - 1
    /\ rd' = [rd EXCEPT !.pc = "signal"]
    /\ UNCHANGED <<conf, err, chunkID, rChunk, bytesRead, cIdx, qWait, quit,
                   closed, spQuit, activeChunks, rwrapper, md5, dispI, dispId,
                   getChClosed, workers, condL, ret, out, returned, teardowns,
                   md5Gets, given, xvars, firstErr>>

md5WriteBuffer(h, c) == IF Md5Check THEN h \o ChunkBytes(c, 0, bufsz) ELSE h

\* nextChunk: the bytes written to the running MD5 for chunk c
md5Write(h, c) == IF Md5Check THEN h \o ChunkBytes(c, 0, c.size) ELSE h

\* nextChunk: g.cond.Signal(), the MD5 of the chunk, and the return to Read,
\* which sets g.rChunk and g.cIdx = 0
nextChunkSignal ==
    /\ rd.pc = "signal"
    /\ workers' = condSignal(workers)
    /\ md5' = md5Write(md5, rd.c)
    /\ rChunk' = rd.c
    /\ cIdx' = 0
    /\ rd' = [rd EXCEPT !.pc = "loop", !.c = NoChunk]
    /\ UNCHANGED <<conf, err, chunkID, bytesRead, qWait, qWaitLen, quit, closed,
                   spQuit, activeChunks, rwrapper, dispI, dispId, getChClosed,
                   condL, ret, out, returned, teardowns, md5Gets, given, xvars, firstErr>>

\* getChunk's "g.readCh <- c" meeting nextChunk's "case c := <-g.readCh":
\* the reader stores the chunk in qWait, the worker goes on to the gate
getChunkSend(w) ==
    /\ w.pc = "send"
    /\ rd.pc = "select"
    /\ qWait' = qWait \cup {w.c}
    /\ workers' = Step(w, Woken)
    /\ rd' = [rd EXCEPT !.pc = "inc"]
    /\ UNCHANGED <<conf, err, chunkID, rChunk, bytesRead, cIdx, qWaitLen, quit,
                   closed, spQuit, activeChunks, rwrapper, md5, dispI, dispId,
                   getChClosed, condL, ret, out, returned, teardowns, md5Gets, given, xvars, firstErr>>

\* nextChunk: g.qWaitLen++ under the mutex, then back to the head of the loop
nextChunkInc ==
    /\ rd.pc = "inc"
    /\ condL = "free"
    /\ qWaitLen' = qWaitLen + 1
    /\ rd' = [rd EXCEPT !.pc = "next"]
    /\ UNCHANGED <<conf, err, chunkID, rChunk, bytesRead, cIdx, qWait, quit,
                   closed, spQuit, activeChunks, rwrapper, md5, dispI, dispId,
                   getChClosed, workers, condL, ret, out, returned, teardowns,
                   md5Gets, given, xvars, firstErr>>

\* ----------------------------------------------------------- getter.Close
\* Close: entry. A closed getter answers EINVAL; otherwise closed is set and
\* the pool's quit and the getter's quit channels are closed
Close ==
    /\ rd.pc = "idle"
    /\ IF closed
       THEN /\ Return("Close", 0, 0, EINVAL)
            /\ UNCHANGED <<closed, spQuit, quit, teardowns>>
       ELSE /\ closed' = TRUE
            /\ spQuit' = TRUE
            /\ quit' = TRUE
            /\ teardowns' = teardowns + 1
            /\ rd' = [rd EXCEPT !.pc = "broadcast"]
            /\ UNCHANGED <<ret, returned, cp>>
    /\ UNCHANGED <<conf, err, chunkID, rChunk, bytesRead, cIdx, qWait, qWaitLen,
                   activeChunks, rwrapper, md5, dispI, dispId, getChClosed,
                   workers, condL, out, md5Gets, given, bd, put, forced, avars,
                   firstErr>>

BroadcastLocked == condL = "free"

\* Close: g.cond.Broadcast() needs nothing but the condition itself
BroadcastReady == TRUE

\* Close: g.cond.Broadcast()
CloseBroadcast ==
    /\ rd.pc = "broadcast"
    /\ BroadcastReady
    /\ workers' = condBroadcast(workers)
    /\ rd' = [rd EXCEPT !.pc = "result"]
    /\ UNCHANGED <<conf, err, chunkID, rChunk, bytesRead, cIdx, qWait, qWaitLen,
                   quit, closed, spQuit, activeChunks, rwrapper, md5, dispI,
                   dispId, getChClosed, condL, ret, out, returned, teardowns,
                   md5Gets, given, xvars, firstErr>>

\* The body of the sidecar object .md5/<path>.md5 as the store returns it:
\* the digest of the object, another digest, or no sidecar (status # 200)
Sidecars == {Md5Sum(ObjectBytes(contentLen)), Md5Sum(<<-1>>), <<"none", <<>>>>}

\* checkMd5: the error it returns for the sidecar body given
checkMd5(givenMd5) ==
    LET calcMd5 == Md5Sum(md5)
    IN IF givenMd5[1] = "none" THEN Md5NotFoundError
       ELSE IF calcMd5 # givenMd5 THEN Md5MismatchError
       ELSE nil

CloseResultNoLength(givenMd5) ==
    IF err # nil THEN err
    ELSE IF Md5Check THEN checkMd5(givenMd5)
    ELSE nil

CloseChecksMd5NonEmpty ==
    err = nil /\ bytesRead = contentLen /\ Md5Check /\ contentLen > 0

\* Close: whether Close goes on to checkMd5
CloseChecksMd5 == err = nil /\ bytesRead = contentLen /\ Md5Check

\* Close: which of the checks after the teardown decides the result
CloseResult(givenMd5) ==
    IF err # nil THEN err
    ELSE IF bytesRead # contentLen THEN ShortReadError(bytesRead, contentLen)
    ELSE IF Md5Check THEN checkMd5(givenMd5)
    ELSE nil

\* Close: the result; the sidecar is requested only when checkMd5 runs
CloseReturn ==
    /\ rd.pc = "result"
    /\ \E givenMd5 \in Sidecars :
        /\ Return("Close", 0, 0, CloseResult(givenMd5))
        /\ md5Gets' = IF CloseChecksMd5 THEN md5Gets + 1 ELSE md5Gets
        /\ given' = IF CloseChecksMd5 THEN givenMd5 ELSE given
    /\ UNCHANGED <<conf, gvars, out, teardowns, bd, put, forced, avars, firstErr>>

\* ----------------------------------------------------------------- putter
\* The putter's source is not part of the sources at hand; its handle is
\* modelled from the documented contract of write and close: closed flag,
\* sticky error, bytes accepted.
PartError == Error("part", 0, 0)

PutReturn(op, len, n, e) == ret' = Ret(op, len, n, e)

\* write(src): invalid-argument after close, the sticky error once one is
\* set, otherwise the bytes are accepted
putterWrite(len) ==
    /\ put.open
    /\ put.written + len <= MaxContentLen
    /\ IF put.closed
       THEN PutReturn("Write", len, 0, EINVAL) /\ UNCHANGED put
       ELSE IF put.err # nil
            THEN PutReturn("Write", len, 0, put.err) /\ UNCHANGED put
            ELSE /\ PutReturn("Write", len, len, nil)
                 /\ put' = [put EXCEPT !.written = @ + len]
    /\ UNCHANGED <<conf, gvars, rd, out, returned, teardowns, md5Gets, given,
                   bd, kvars, firstErr>>

\* a fatal part error becomes the putter's sticky error
putterFail ==
    /\ put.open
    /\ ~put.closed
    /\ put.err = nil
    /\ put' = [put EXCEPT !.err = PartError]
    /\ UNCHANGED <<conf, gvars, cvars, bd, kvars, firstErr>>

\* close(): invalid-argument on a second call; otherwise the putter is
\* closed and the sticky error, if any, is the result
putterClose ==
    /\ put.open
    /\ IF put.closed
       THEN PutReturn("Close", 0, 0, EINVAL) /\ UNCHANGED put
       ELSE /\ PutReturn("Close", 0, 0, put.err)
            /\ put' = [put EXCEPT !.closed = TRUE]
    /\ UNCHANGED <<conf, gvars, rd, out, returned, teardowns, md5Gets, given,
                   bd, kvars, firstErr>>

\* ------------------------------------------------------------------- Spec
\* the dispatcher and the worker goroutines
WorkerNext ==
    \/ \E w \in WorkerSet : initChunks(w)
    \/ initChunksClose
    \/ \E w \in WorkerSet : workerExit(w)
    \/ \E w \in WorkerSet : worker(w)
    \/ \E w \in WorkerSet : retryGetChunk(w)
    \/ \E w \in WorkerSet : getChunkResponse(w)
    \/ \E w \in WorkerSet : getChunkRead(w)
    \/ \E w \in WorkerSet : getChunkError(w)
    \/ \E w \in WorkerSet : getChunkSend(w)
    \/ \E w \in WorkerSet : getChunkGate(w)
    \/ \E w \in WorkerSet : getChunkWait(w)

\* the caller inside a call of Read or Close
ReaderSteps ==
    \/ ReadLoop
    \/ ReadChunkComplete
    \/ nextChunk
    \/ nextChunkDec
    \/ nextChunkSignal
    \/ nextChunkInc
    \/ CloseBroadcast
    \/ CloseReturn

\* the consumer inside a call of Read or Close, and its call of Close
ReaderNext ==
    \/ ReaderSteps
    \/ Close

GetterNext ==
    \/ WorkerNext
    \/ \E len \in 0..MaxReadLen : Read(len)
    \/ ReaderNext

Next ==
    \/ GetterNext
    \/ \E len \in 0..MaxReadLen : putterWrite(len)
    \/ putterFail
    \/ putterClose

\* a consumer using one handle, a getter's or a putter's
Spec == Init /\ [][Next]_vars

\* a getter on an object of many one-byte chunks, read a byte at a time
InitLong ==
    /\ \E concurrency \in 0..MaxConcurrency, length \in 0..MaxLongLen :
            newGetter(1, 1, concurrency, FALSE, length)
    /\ rd = IdleReader
    /\ put = NoPutter
    /\ ret = Ret("none", 0, 0, nil)
    /\ out = <<>>
    /\ returned = 0
    /\ teardowns = 0
    /\ md5Gets = 0
    /\ given = <<"unread", <<>>>>
    /\ bd = [pc |-> "idle", total |-> 0, last |-> 0]
    /\ firstErr = nil
    /\ NoController

LongNext ==
    \/ WorkerNext
    \/ Read(1)
    \/ ReaderNext

SpecLong == InitLong /\ [][LongNext]_vars

\* --------------------------------------------------------- a fair download
\* a getter on an object of one-byte chunks whose GETs all succeed, read to
\* the end by a consumer that keeps calling Read and does not call Close
InitLive ==
    /\ \E concurrency \in 1..MaxLiveConcurrency, length \in 0..MaxLiveLen :
            newGetter(1, 1, concurrency, FALSE, length)
    /\ rd = IdleReader
    /\ put = NoPutter
    /\ ret = Ret("none", 0, 0, nil)
    /\ out = <<>>
    /\ returned = 0
    /\ teardowns = 0
    /\ md5Gets = 0
    /\ given = <<"unread", <<>>>>
    /\ bd = [pc |-> "idle", total |-> 0, last |-> 0]
    /\ firstErr = nil
    /\ NoController

Dispatch == \E w \in WorkerSet : initChunks(w)

WorkerExits == \E w \in WorkerSet : workerExit(w)

WorkerRegisters == \E w \in WorkerSet : worker(w)

WorkerAcquires == \E w \in WorkerSet : retryGetChunk(w)

WorkerGetsResponse == \E w \in WorkerSet : getChunkResponse(w)

WorkerReadsBody == \E w \in WorkerSet : getChunkRead(w)

WorkerSends == \E w \in WorkerSet : getChunkSend(w)

WorkerAtGate == \E w \in WorkerSet : getChunkGate(w)

WorkerWaits == \E w \in WorkerSet : getChunkWait(w)

LiveNext ==
    \/ Dispatch
    \/ initChunksClose
    \/ WorkerExits
    \/ WorkerRegisters
    \/ WorkerAcquires
    \/ WorkerGetsResponse
    \/ WorkerReadsBody
    \/ WorkerSends
    \/ WorkerAtGate
    \/ WorkerWaits
    \/ Read(1)
    \/ ReadLoop
    \/ ReadChunkComplete
    \/ nextChunk
    \/ nextChunkDec
    \/ nextChunkSignal
    \/ nextChunkInc

\* every goroutine that can take a step eventually takes it; a goroutine
\* waiting for the queue mutex gets it (sync.Mutex hands a starving waiter
\* the lock)
LiveFairness ==
    /\ WF_vars(Dispatch)
    /\ WF_vars(initChunksClose)
    /\ WF_vars(WorkerExits)
    /\ WF_vars(WorkerRegisters)
    /\ WF_vars(WorkerAcquires)
    /\ WF_vars(WorkerGetsResponse)
    /\ WF_vars(WorkerReadsBody)
    /\ WF_vars(WorkerSends)
    /\ SF_vars(WorkerAtGate)
    /\ WF_vars(WorkerWaits)
    /\ WF_vars(Read(1))
    /\ WF_vars(ReadLoop)
    /\ WF_vars(ReadChunkComplete)
    /\ WF_vars(nextChunk)
    /\ SF_vars(nextChunkDec)
    /\ WF_vars(nextChunkSignal)
    /\ SF_vars(nextChunkInc)

SpecLive == InitLive /\ [][LiveNext]_vars /\ LiveFairness

\* --------------------------------------------------------------- newGetter
\* the statuses the store answers the first GET with
Statuses == {200, 404, 503}

\* the error of a request that got no response
TransportError == Error("transport", 0, 0)

\* newRespError(resp): the structured error of a response, with its status
RespError(status) == Error("response", status, 0)

UndefinedLengthError == Error("undefined content-length", 0, 0)

CheckResponseLengthOnly(status, length) ==
    IF length = -1 THEN UndefinedLengthError ELSE nil

\* newGetter: the checks of the response: the status, then ContentLength
CheckResponse(status, length) ==
    IF status # 200 THEN RespError(status)
    ELSE IF length = -1 THEN UndefinedLengthError
    ELSE nil

\* newGetter is called with any Config; the state is the one before the
\* first request: the fields set from the Config, the channels made, no
\* pool, no worker, no dispatcher
InitNew ==
    /\ \E PartSize \in (-MaxBelowZero)..MaxPartSize, ntry \in (-MaxBelowZero)..MaxNTry,
          concurrency \in (-MaxBelowZero)..MaxConcurrency :
        /\ bufsz = max64(PartSize, 1)
        /\ NTry = max(ntry, 1)
        /\ Concurrency = max(concurrency, 1)
        /\ ng = Call("request", [PartSize |-> PartSize, NTry |-> ntry,
                                 Concurrency |-> concurrency])
    /\ Md5Check = FALSE
    /\ contentLen = 0 /\ chunkTotal = 0
    /\ err = nil /\ chunkID = 0 /\ rChunk = NoChunk /\ bytesRead = 0 /\ cIdx = 0
    /\ qWait = {} /\ qWaitLen = 0 /\ quit = FALSE /\ closed = FALSE
    /\ spQuit = FALSE /\ activeChunks = {}
    /\ rwrapper = [id \in {} |-> -1]
    /\ md5 = <<>> /\ dispI = 0 /\ dispId = 0 /\ getChClosed = FALSE
    /\ workers = EmptyBag /\ condL = "free"
    /\ rd = IdleReader
    /\ put = NoPutter
    /\ NoController
    /\ NothingApart
    /\ ret = Ret("none", 0, 0, nil)
    /\ out = <<>>
    /\ returned = 0
    /\ teardowns = 0
    /\ md5Gets = 0
    /\ given = <<"unread", <<>>>>
    /\ bd = [pc |-> "idle", total |-> 0, last |-> 0]
    /\ firstErr = nil

\* what the call leaves alone until it starts the getter
NewFrame ==
    UNCHANGED <<bufsz, contentLen, chunkTotal, NTry, Concurrency, Md5Check,
                apart, gvars, cvars, xvars, firstErr>>

\* retryRequest: one pass of the loop: the request gets a response, of any
\* status, and retryRequest returns it; or it gets none, and the loop goes
\* on until NTry requests were sent, when the error is returned
retryRequest ==
    /\ ng.pc = "request"
    /\ \/ \E status \in Statuses, length \in -1..MaxNewLen :
            ng' = [ng EXCEPT !.try = @ + 1, !.status = status,
                             !.length = length, !.pc = "response"]
       \/ ng' = IF ng.try + 1 < NTry
                THEN [ng EXCEPT !.try = @ + 1]
                ELSE [ng EXCEPT !.try = @ + 1, !.err = TransportError,
                                !.pc = "failed"]
    /\ NewFrame

\* newGetter: a response that fails the checks ends the call with the error
\* and no getter
newGetterFail ==
    /\ ng.pc = "response"
    /\ CheckResponse(ng.status, ng.length) # nil
    /\ ng' = [ng EXCEPT !.err = CheckResponse(ng.status, ng.length),
                        !.pc = "failed"]
    /\ NewFrame

\* newGetter: contentLen and chunkTotal are set, the buffer pool is made,
\* g.c.Concurrency workers and the dispatcher are started and the getter is
\* returned
newGetterStart ==
    /\ ng.pc = "response"
    /\ CheckResponse(ng.status, ng.length) = nil
    /\ contentLen' = ng.length
    /\ chunkTotal' = (ng.length + bufsz - 1) \div bufsz
    /\ rwrapper' = [id \in 0..(chunkTotal' - 1) |-> -1]
    /\ workers' = [w \in {IdleWorker} |-> Concurrency]
    /\ ng' = [ng EXCEPT !.pool = TRUE, !.dispatchers = 1, !.pc = "returned"]
    /\ UNCHANGED <<bufsz, NTry, Concurrency, Md5Check, apart, err, chunkID,
                   rChunk, bytesRead, cIdx, qWait, qWaitLen, quit, closed, spQuit,
                   activeChunks, md5, dispI, dispId, getChClosed, condL, cvars,
                   xvars, firstErr>>

\* the getter that newGetter returned runs: dispatcher, workers, consumer
Started ==
    /\ ng.pc = "returned"
    /\ WorkerNext \/ Read(1) \/ ReaderNext

NewNext ==
    \/ retryRequest
    \/ newGetterFail
    \/ newGetterStart
    \/ Started

SpecNew == InitNew /\ [][NewNext]_vars

\* ------------------------------------------- GetterController.BytesDone
\* BytesDone: the loop over activeChunks under activeChunksLock; a chunk
\* whose rwrapper is still nil adds nothing
BytesDoneSum(ids) ==
    LET RECURSIVE Sum(_)
        Sum(S) == IF S = {} THEN 0
                  ELSE LET id == CHOOSE x \in S : TRUE
                       IN (IF rwrapper[id] # -1 THEN rwrapper[id] ELSE 0)
                              + Sum(S \ {id})
    IN Sum(ids)

BytesDoneSnapshot ==
    /\ bd.pc = "idle"
    /\ aLock = "free"
    /\ bd' = [bd EXCEPT !.pc = "sum", !.total = BytesDoneSum(activeChunks)]
    /\ UNCHANGED <<conf, gvars, cvars, put, kvars, firstErr>>

\* BytesDone: total += g.getter.bytesRead after the unlock, and the return
BytesDoneReturn ==
    /\ bd.pc = "sum"
    /\ bd' = [pc |-> "idle", total |-> 0, last |-> bd.total + bytesRead]
    /\ UNCHANGED <<conf, gvars, cvars, put, kvars, firstErr>>

\* a getter whose progress is polled while it runs
InitProgress ==
    /\ \E PartSize \in 1..MaxPartSize, ntry \in 1..MaxNTry,
          concurrency \in 1..MaxConcurrency, length \in 0..MaxProgressLen :
            newGetter(PartSize, ntry, concurrency, FALSE, length)
    /\ rd = IdleReader
    /\ put = NoPutter
    /\ ret = Ret("none", 0, 0, nil)
    /\ out = <<>>
    /\ returned = 0
    /\ teardowns = 0
    /\ md5Gets = 0
    /\ given = <<"unread", <<>>>>
    /\ bd = [pc |-> "idle", total |-> 0, last |-> 0]
    /\ firstErr = nil
    /\ NoController

ProgressNext ==
    \/ GetterNext
    \/ BytesDoneSnapshot
    \/ BytesDoneReturn

SpecProgress == InitProgress /\ [][ProgressNext]_vars

\* ---------------------------------------------------------------- GetAsync
\* tomb.Kill: the first call puts the tomb in the dying state with its
\* reason; a nil reason is replaced by a later one, any other reason stays
tombKill(t, reason) ==
    IF t.reason = ErrStillAlive \/ t.reason = nil
    THEN [t EXCEPT !.reason = reason]
    ELSE t

\* <-t.Dying() is ready
Dying == tomb.reason # ErrStillAlive

\* GetAsync: the getter is constructed, the controller is "Ready", the
\* supervisor loop and the copy task are started
InitAsync ==
    /\ \E PartSize \in 1..MaxPartSize, ntry \in 1..MaxNTry,
          concurrency \in 1..MaxConcurrency, length \in 0..MaxAsyncLen :
            newGetter(PartSize, ntry, concurrency, FALSE, length)
    /\ rd = IdleReader
    /\ put = NoPutter
    /\ ret = Ret("none", 0, 0, nil)
    /\ out = <<>>
    /\ returned = 0
    /\ teardowns = 0
    /\ md5Gets = 0
    /\ given = <<"unread", <<>>>>
    /\ bd = [pc |-> "idle", total |-> 0, last |-> 0]
    /\ firstErr = nil
    /\ cp = "reading"
    /\ forced = {}
    /\ tomb = [reason |-> ErrStillAlive, dead |-> FALSE]
    /\ State = "Ready"
    /\ Reason = ""
    /\ lp = "start"
    /\ sp = "idle"
    /\ wr = 0
    /\ wrStop = -1
    /\ aLock = "free"
    /\ mp = <<>>

\* the copy task: io.Copy calls getReader.Read with its buffer
copyRead ==
    /\ cp = "reading"
    /\ Read(CopyBufLen)

\* io.Copy: the bytes Read returned are written to w, then the error of
\* Read decides: none, go on; EOF, the copy ended well; another, it failed
copyWrite ==
    /\ cp = "write"
    /\ wr' = wr + ret.n
    /\ cp' = IF ret.err = nil THEN "reading"
             ELSE IF ret.err = EOF THEN "closing"
             ELSE "killcopy"
    /\ UNCHANGED <<conf, gvars, cvars, bd, put, forced, tomb, State, Reason, lp,
                   sp, wrStop, aLock, mp, firstErr>>

\* the copy task: controller.t.Kill(err) after a failed io.Copy
copyKill ==
    /\ cp = "killcopy"
    /\ tomb' = tombKill(tomb, ret.err)
    /\ cp' = "closing"
    /\ UNCHANGED <<conf, gvars, cvars, bd, put, forced, State, Reason, lp, sp,
                   wr, wrStop, aLock, mp, firstErr>>

\* the copy task: err = getReader.Close()
copyClose ==
    /\ cp = "closing"
    /\ Close

\* the copy task: Kill(err) when Close failed, otherwise Kill(nil)
copyCloseKill ==
    /\ cp = "kill"
    /\ tomb' = tombKill(tomb, ret.err)
    /\ cp' = IF ret.err # nil THEN "end" ELSE "state"
    /\ UNCHANGED <<conf, gvars, cvars, bd, put, forced, State, Reason, lp, sp,
                   wr, wrStop, aLock, mp, firstErr>>

\* the copy task: controller.State = "Completed"
copyCompleted ==
    /\ cp = "state"
    /\ State' = "Completed"
    /\ cp' = "end"
    /\ UNCHANGED <<conf, gvars, cvars, bd, put, forced, tomb, Reason, lp, sp,
                   wr, wrStop, aLock, mp, firstErr>>

\* nextChunk: "case <-g.quit: return nil, g.err"; with a nil g.err Read goes
\* on to use the nil chunk and the goroutine panics
nextChunkQuit ==
    /\ rd.pc = "select"
    /\ quit
    /\ IF err # nil
       THEN Return("Read", rd.len, 0, err)
       ELSE /\ rd' = [rd EXCEPT !.pc = "panic"]
            /\ UNCHANGED <<ret, returned, cp>>
    /\ UNCHANGED <<conf, gvars, out, teardowns, md5Gets, given, bd, put, forced,
                   avars, firstErr>>

\* loop: g.State = "Downloading"
loopStart ==
    /\ lp = "start"
    /\ State' = "Downloading"
    /\ lp' = "select"
    /\ UNCHANGED <<conf, gvars, cvars, bd, put, cp, forced, tomb, Reason, sp,
                   wr, wrStop, aLock, mp, firstErr>>

\* loop: "case <-g.t.Dying()": g.st = nil and activeChunksLock.Lock()
loopDying ==
    /\ lp = "select"
    /\ Dying
    /\ aLock = "free"
    /\ aLock' = "loop"
    /\ lp' = "close"
    /\ UNCHANGED <<conf, gvars, cvars, bd, put, cp, forced, tomb, State, Reason,
                   sp, wr, wrStop, mp, firstErr>>

\* loop: g.getter.Close() up to close(g.quit); its result is dropped
loopClose ==
    /\ lp = "close"
    /\ IF closed
       THEN /\ lp' = "force"
            /\ UNCHANGED <<closed, spQuit, quit, teardowns>>
       ELSE /\ closed' = TRUE
            /\ spQuit' = TRUE
            /\ quit' = TRUE
            /\ teardowns' = teardowns + 1
            /\ lp' = "broadcast"
    /\ UNCHANGED <<conf, err, chunkID, rChunk, bytesRead, cIdx, qWait, qWaitLen,
                   activeChunks, rwrapper, md5, dispI, dispId, getChClosed,
                   workers, condL, rd, ret, out, returned, md5Gets, given, bd,
                   put, cp, forced, tomb, State, Reason, sp, wr, wrStop, aLock,
                   mp, firstErr>>

\* loop: g.getter.Close(), the broadcast and the return
loopBroadcast ==
    /\ lp = "broadcast"
    /\ workers' = condBroadcast(workers)
    /\ lp' = "force"
    /\ UNCHANGED <<conf, err, chunkID, rChunk, bytesRead, cIdx, qWait, qWaitLen,
                   quit, closed, spQuit, activeChunks, rwrapper, md5, dispI,
                   dispId, getChClosed, condL, cvars, bd, put, cp, forced, tomb,
                   State, Reason, sp, wr, wrStop, aLock, mp, firstErr>>

\* loop: ForceClose on the tracked reader of every active chunk that has
\* one, then activeChunksLock.Unlock()
loopForceClose ==
    /\ lp = "force"
    /\ forced' = forced \cup {id \in activeChunks : rwrapper[id] # -1}
    /\ aLock' = "free"
    /\ lp' = "reason"
    /\ UNCHANGED <<conf, gvars, cvars, bd, put, cp, tomb, State, Reason, sp, wr,
                   wrStop, mp, firstErr>>

\* loop: State = "Stopped" when the kill reason is ErrStopped, and the
\* return, after which the tomb is dead and Done() is signalled
loopReturn ==
    /\ lp = "reason"
    /\ State' = IF tomb.reason = ErrStopped THEN "Stopped" ELSE State
    /\ tomb' = [tomb EXCEPT !.dead = TRUE]
    /\ lp' = "done"
    /\ UNCHANGED <<conf, gvars, cvars, bd, put, cp, forced, Reason, sp, wr,
                   wrStop, aLock, mp, firstErr>>

\* Stop: g.getter.err = ErrStopped
Stop ==
    /\ sp = "idle"
    /\ bd.pc = "idle"
    /\ err' = ErrStopped
    /\ firstErr' = IF firstErr = nil THEN ErrStopped ELSE firstErr
    /\ sp' = "kill"
    /\ UNCHANGED <<conf, chunkID, rChunk, bytesRead, cIdx, qWait, qWaitLen, quit,
                   closed, spQuit, activeChunks, rwrapper, md5, dispI, dispId,
                   getChClosed, workers, condL, cvars, bd, put, cp, forced, tomb,
                   State, Reason, lp, wr, wrStop, aLock, mp>>

\* Stop: g.t.Kill(ErrStopped)
StopKill ==
    /\ sp = "kill"
    /\ tomb' = tombKill(tomb, ErrStopped)
    /\ sp' = "wait"
    /\ UNCHANGED <<conf, gvars, cvars, bd, put, cp, forced, State, Reason, lp,
                   wr, wrStop, aLock, mp, firstErr>>

\* Stop: g.t.Wait() returns once the tomb is dead. From here on bd.last is
\* the last value BytesDone returned since Stop returned (0 when none), and
\* wrStop is the number of bytes written to w when Stop returned
StopWait ==
    /\ sp = "wait"
    /\ tomb.dead
    /\ sp' = "returned"
    /\ wrStop' = wr
    /\ bd' = [bd EXCEPT !.last = 0]
    /\ UNCHANGED <<conf, gvars, cvars, put, cp, forced, tomb, State, Reason, lp,
                   wr, aLock, mp, firstErr>>

\* BytesDone called by the caller of Stop, before or after its call
callerBytesDone ==
    /\ sp \in {"idle", "returned"}
    /\ BytesDoneSnapshot \/ BytesDoneReturn

AsyncNext ==
    \/ WorkerNext
    \/ ReaderSteps
    \/ nextChunkQuit
    \/ copyRead
    \/ copyWrite
    \/ copyKill
    \/ copyClose
    \/ copyCloseKill
    \/ copyCompleted
    \/ loopStart
    \/ loopDying
    \/ loopClose
    \/ loopBroadcast
    \/ loopForceClose
    \/ loopReturn
    \/ Stop
    \/ StopKill
    \/ StopWait
    \/ callerBytesDone

SpecAsync == InitAsync /\ [][AsyncNext]_vars

\* ---------------------------------------------------------------- PutAsync
\* The putter's source is not part of the sources at hand: the multipart
\* upload (mp) follows the documented putter pipeline. PutAsync, the
\* PutController, its loop, Complete and Stop are translated from the code.
SourceError == Error("source", 0, 0)

\* a sealed part: its number, the state of its upload, the failed attempts,
\* whether its tracked reader was force-closed, the ETag the server returned
Part(n) == [number |-> n, st |-> "queued", try |-> 0, forced |-> FALSE,
            etag |-> 0]

\* the parts in the order their uploads completed
PartsInWireOrder(s) == s

\* the parts in ascending number, as the completion request lists them
SortParts(s) ==
    [i \in 1..Len(s) |->
        s[CHOOSE k \in 1..Len(s) :
            Cardinality({j \in 1..Len(s) : s[j].number < s[k].number}) = i - 1]]

\* PutAsync: the putter is constructed (upload id obtained), the controller
\* is "Ready", the supervisor loop and the copy task are started; the source
\* reader holds length bytes
InitPutAsync ==
    /\ InitPutter
    /\ \E PartSize \in 1..MaxPartSize, ntry \in 1..MaxNTry,
          concurrency \in 1..MaxConcurrency, length \in 0..MaxPutLen :
            mp = [psz |-> PartSize, ntry |-> ntry, conc |-> concurrency,
                  src |-> length, buf |-> 0, parts |-> <<>>, done |-> <<>>,
                  xml |-> <<>>, completed |-> FALSE, puts |-> 0, aborts |-> 0]
    /\ ret = Ret("none", 0, 0, nil)
    /\ out = <<>>
    /\ returned = 0
    /\ teardowns = 0
    /\ md5Gets = 0
    /\ given = <<"unread", <<>>>>
    /\ bd = [pc |-> "idle", total |-> 0, last |-> 0]
    /\ firstErr = nil
    /\ cp = "reading"
    /\ forced = {}
    /\ tomb = [reason |-> ErrStillAlive, dead |-> FALSE]
    /\ State = "Ready"
    /\ Reason = ""
    /\ lp = "start"
    /\ sp = "idle"
    /\ wr = 0
    /\ wrStop = -1
    /\ aLock = "free"

\* what no step of PutAsync touches
PutFrame ==
    UNCHANGED <<conf, gvars, rd, out, returned, teardowns, md5Gets, given, bd,
                forced, wrStop, aLock, firstErr>>

\* the copy task: io.Copy reads from r: a buffer of bytes, EOF at the end of
\* the source, or an error of the source
putCopyRead ==
    /\ cp = "reading"
    /\ \/ /\ wr < mp.src
          /\ ret' = Ret("Read", CopyBufLen, CopyBufLen, nil)
          /\ cp' = "write"
       \/ /\ wr = mp.src
          /\ ret' = Ret("Read", CopyBufLen, 0, EOF)
          /\ cp' = "closing"
       \/ /\ ret' = Ret("Read", CopyBufLen, 0, SourceError)
          /\ cp' = "killcopy"
    /\ PutFrame
    /\ UNCHANGED <<put, tomb, State, Reason, lp, sp, wr, mp>>

\* io.Copy: putter.Write: the sticky error once one is set; otherwise the
\* bytes go to the current part buffer, and a full buffer is sealed as the
\* next part and handed to the workers
putCopyWrite ==
    /\ cp = "write"
    /\ IF put.err # nil
       THEN /\ ret' = Ret("Write", ret.n, 0, put.err)
            /\ cp' = "killcopy"
            /\ UNCHANGED <<put, wr, mp>>
       ELSE /\ ret' = Ret("Write", ret.n, ret.n, nil)
            /\ cp' = "reading"
            /\ wr' = wr + ret.n
            /\ put' = [put EXCEPT !.written = @ + ret.n]
            /\ mp' = IF mp.buf + ret.n = mp.psz
                     THEN [mp EXCEPT !.buf = 0,
                                     !.parts = Append(@, Part(Len(@) + 1))]
                     ELSE [mp EXCEPT !.buf = @ + ret.n]
    /\ PutFrame
    /\ UNCHANGED <<tomb, State, Reason, lp, sp>>

\* the copy task failed and went to Complete without closing the putter
putCopyKillNoClose ==
    /\ cp = "killcopy"
    /\ tomb' = tombKill(tomb, ret.err)
    /\ cp' = "complete"
    /\ PutFrame
    /\ UNCHANGED <<ret, put, State, Reason, lp, sp, wr, mp>>

\* the copy task: io.Copy failed: pc.t.Kill(err), then on to putter.Close
putCopyKill ==
    /\ cp = "killcopy"
    /\ tomb' = tombKill(tomb, ret.err)
    /\ cp' = "closing"
    /\ PutFrame
    /\ UNCHANGED <<ret, put, State, Reason, lp, sp, wr, mp>>

\* putter.Close: with a sticky error the upload is aborted and the error
\* returned; with no part handed over the buffered bytes (none, or less
\* than a part) go out in a single PUT and the upload is aborted; otherwise
\* the trailing partial part is sealed and Close waits for the workers
putClose ==
    /\ cp = "closing"
    /\ put' = [put EXCEPT !.closed = TRUE]
    /\ IF put.err # nil
       THEN /\ mp' = [mp EXCEPT !.aborts = 1]
            /\ ret' = Ret("Close", 0, 0, put.err)
            /\ cp' = "killclose"
       ELSE IF mp.parts = <<>>
            THEN /\ mp' = [mp EXCEPT !.puts = 1, !.aborts = 1, !.buf = 0]
                 /\ ret' = Ret("Close", 0, 0, nil)
                 /\ cp' = "complete"
            ELSE /\ mp' = IF mp.buf > 0
                          THEN [mp EXCEPT !.buf = 0,
                                          !.parts = Append(@, Part(Len(@) + 1))]
                          ELSE mp
                 /\ cp' = "wait"
                 /\ UNCHANGED ret
    /\ PutFrame
    /\ UNCHANGED <<tomb, State, Reason, lp, sp, wr>>

\* putter.Close, all workers done: on a fatal error the upload is aborted
\* and the sticky error returned; otherwise the completion request lists
\* the parts in ascending number, each with its returned ETag
putCloseWait ==
    /\ cp = "wait"
    /\ \A i \in 1..Len(mp.parts) : mp.parts[i].st \in {"done", "failed"}
    /\ IF put.err # nil
       THEN /\ mp' = [mp EXCEPT !.aborts = 1]
            /\ ret' = Ret("Close", 0, 0, put.err)
            /\ cp' = "killclose"
       ELSE /\ mp' = [mp EXCEPT !.completed = TRUE,
                                !.xml = SortParts(mp.done)]
            /\ ret' = Ret("Close", 0, 0, nil)
            /\ cp' = "complete"
    /\ PutFrame
    /\ UNCHANGED <<put, tomb, State, Reason, lp, sp, wr>>

\* the copy task: putter.Close failed: pc.t.Kill(err), then on to Complete
putCloseKill ==
    /\ cp = "killclose"
    /\ tomb' = tombKill(tomb, ret.err)
    /\ cp' = "complete"
    /\ PutFrame
    /\ UNCHANGED <<ret, put, State, Reason, lp, sp, wr, mp>>

\* PutController.Complete: p.t.Kill(nil)
Complete ==
    /\ cp = "complete"
    /\ tomb' = tombKill(tomb, nil)
    /\ cp' = "state"
    /\ PutFrame
    /\ UNCHANGED <<ret, put, State, Reason, lp, sp, wr, mp>>

\* PutController.Complete: p.State = "Completed"
CompleteState ==
    /\ cp = "state"
    /\ State' = "Completed"
    /\ cp' = "end"
    /\ PutFrame
    /\ UNCHANGED <<ret, put, tomb, Reason, lp, sp, wr, mp>>

\* a worker takes a sealed part and starts its PUT
putPartStart(i) ==
    /\ mp.parts[i].st = "queued"
    /\ Cardinality({j \in 1..Len(mp.parts) : mp.parts[j].st = "uploading"})
         < mp.conc
    /\ mp' = [mp EXCEPT !.parts[i].st = "uploading"]
    /\ PutFrame
    /\ UNCHANGED <<ret, put, cp, tomb, State, Reason, lp, sp, wr>>

\* the PUT of a part succeeds (its reader was not force-closed): the server
\* returns the part's ETag
putPartDone(i) ==
    /\ mp.parts[i].st = "uploading"
    /\ ~mp.parts[i].forced
    /\ LET etag == mp.parts[i].try + 1
       IN  mp' = [mp EXCEPT !.parts[i].st = "done",
                            !.parts[i].etag = etag,
                            !.done = Append(@, [number |-> i, etag |-> etag])]
    /\ PutFrame
    /\ UNCHANGED <<ret, put, cp, tomb, State, Reason, lp, sp, wr>>

\* an attempt at a part fails: it is retried with the reader rewound, or,
\* the attempts exhausted, the error is fatal and becomes the sticky error
putPartFail(i) ==
    /\ mp.parts[i].st = "uploading"
    /\ IF mp.parts[i].try + 1 >= mp.ntry
       THEN /\ mp' = [mp EXCEPT !.parts[i].st = "failed",
                                !.parts[i].try = @ + 1]
            /\ put' = [put EXCEPT !.err = IF @ = nil THEN PartError ELSE @]
       ELSE /\ mp' = [mp EXCEPT !.parts[i].st = "queued",
                                !.parts[i].try = @ + 1]
            /\ UNCHANGED put
    /\ PutFrame
    /\ UNCHANGED <<ret, cp, tomb, State, Reason, lp, sp, wr>>

\* PutController.loop: p.State = "Uploading"
putLoopStart ==
    /\ lp = "start"
    /\ State' = "Uploading"
    /\ lp' = "select"
    /\ PutFrame
    /\ UNCHANGED <<ret, put, cp, tomb, Reason, sp, wr, mp>>

\* PutController.loop, <-p.t.Dying(): for every part of xml.Part NTry is
\* set to 0 and the part's reader is force-closed
putLoopDying ==
    /\ lp = "select"
    /\ Dying
    /\ mp' = [mp EXCEPT !.ntry = IF mp.parts = <<>> THEN @ ELSE 0,
                        !.parts = [i \in 1..Len(@) |->
                                       [@[i] EXCEPT !.forced = TRUE]]]
    /\ lp' = "reason"
    /\ PutFrame
    /\ UNCHANGED <<ret, put, cp, tomb, State, Reason, sp, wr>>

\* PutController.loop: "Stopped" if the kill reason is ErrStopped; the loop
\* returns and the tomb is dead
putLoopReturn ==
    /\ lp = "reason"
    /\ State' = IF tomb.reason = ErrStopped THEN "Stopped" ELSE State
    /\ tomb' = [tomb EXCEPT !.dead = TRUE]
    /\ lp' = "done"
    /\ PutFrame
    /\ UNCHANGED <<ret, put, cp, Reason, sp, wr, mp>>

\* PutController.Stop: p.putter.err = ErrStopped
putStop ==
    /\ sp = "idle"
    /\ put' = [put EXCEPT !.err = ErrStopped]
    /\ sp' = "kill"
    /\ PutFrame
    /\ UNCHANGED <<ret, cp, tomb, State, Reason, lp, wr, mp>>

\* PutController.Stop: p.t.Kill(ErrStopped)
putStopKill ==
    /\ sp = "kill"
    /\ tomb' = tombKill(tomb, ErrStopped)
    /\ sp' = "wait"
    /\ PutFrame
    /\ UNCHANGED <<ret, put, cp, State, Reason, lp, wr, mp>>

\* PutController.Stop: p.t.Wait() returns once the loop has returned
putStopWait ==
    /\ sp = "wait"
    /\ tomb.dead
    /\ sp' = "returned"
    /\ PutFrame
    /\ UNCHANGED <<ret, put, cp, tomb, State, Reason, lp, wr, mp>>

\* the goroutines PutAsync starts, and the putter's workers
PutTasks ==
    \/ putCopyRead
    \/ putCopyWrite
    \/ putCopyKill
    \/ putClose
    \/ putCloseWait
    \/ putCloseKill
    \/ Complete
    \/ CompleteState
    \/ \E i \in 1..Len(mp.parts) : putPartStart(i)
    \/ \E i \in 1..Len(mp.parts) : putPartDone(i)
    \/ \E i \in 1..Len(mp.parts) : putPartFail(i)
    \/ putLoopStart
    \/ putLoopDying
    \/ putLoopReturn

PutAsyncNext ==
    \/ PutTasks
    \/ putStop
    \/ putStopKill
    \/ putStopWait

\* every started goroutine keeps running; a caller may or may not call Stop
SpecPutAsync ==
    InitPutAsync /\ [][PutAsyncNext]_vars /\ WF_vars(PutTasks)
                 /\ WF_vars(putStopKill \/ putStopWait)

\* ------------------------------------------- Close by two tasks of GetAsync
\* GetAsync with getter.Close at the granularity of its accesses to g.closed:
\* the test of g.closed and the writes that follow it are separate steps, as
\* nothing orders them between the supervisor loop and the copy task. The
\* copy task reads with a buffer of RaceBufLen bytes over one-byte chunks.
InitRace ==
    /\ \E concurrency \in 1..MaxConcurrency, length \in 0..MaxRaceLen :
            newGetter(1, 1, concurrency, FALSE, length)
    /\ rd = IdleReader
    /\ put = NoPutter
    /\ ret = Ret("none", 0, 0, nil)
    /\ out = <<>>
    /\ returned = 0
    /\ teardowns = 0
    /\ md5Gets = 0
    /\ given = <<"unread", <<>>>>
    /\ bd = [pc |-> "idle", total |-> 0, last |-> 0]
    /\ firstErr = nil
    /\ cp = "reading"
    /\ forced = {}
    /\ tomb = [reason |-> ErrStillAlive, dead |-> FALSE]
    /\ State = "Ready"
    /\ Reason = ""
    /\ lp = "start"
    /\ sp = "idle"
    /\ wr = 0
    /\ wrStop = -1
    /\ aLock = "free"
    /\ mp = <<>>

\* the copy task: io.Copy calls getReader.Read with its buffer
raceRead ==
    /\ cp = "reading"
    /\ Read(RaceBufLen)

\* the copy task in getReader.Close: "if g.closed { return syscall.EINVAL }"
raceClose ==
    /\ cp = "closing"
    /\ rd.pc = "idle"
    /\ IF closed
       THEN Return("Close", 0, 0, EINVAL)
       ELSE /\ rd' = [rd EXCEPT !.pc = "teardown"]
            /\ UNCHANGED <<ret, returned, cp>>
    /\ UNCHANGED <<conf, gvars, out, teardowns, md5Gets, given, bd, put, forced,
                   avars, firstErr>>

\* the copy task in Close: g.closed = true, close(g.sp.quit), close(g.quit);
\* closing a channel that is closed already panics
raceTeardown ==
    /\ rd.pc = "teardown"
    /\ closed' = TRUE
    /\ spQuit' = TRUE
    /\ quit' = IF spQuit THEN quit ELSE TRUE
    /\ teardowns' = teardowns + 1
    /\ rd' = [rd EXCEPT !.pc = IF spQuit THEN "panic" ELSE "broadcast"]
    /\ UNCHANGED <<conf, err, chunkID, rChunk, bytesRead, cIdx, qWait, qWaitLen,
                   activeChunks, rwrapper, md5, dispI, dispId, getChClosed,
                   workers, condL, ret, out, returned, md5Gets, given, xvars,
                   firstErr>>

\* loop in g.getter.Close(): "if g.closed { return syscall.EINVAL }"
raceLoopClose ==
    /\ lp = "close"
    /\ lp' = IF closed THEN "force" ELSE "teardown"
    /\ UNCHANGED <<conf, gvars, cvars, bd, put, cp, forced, tomb, State, Reason,
                   sp, wr, wrStop, aLock, mp, firstErr>>

\* loop in Close: g.closed = true, close(g.sp.quit), close(g.quit)
raceLoopTeardown ==
    /\ lp = "teardown"
    /\ closed' = TRUE
    /\ spQuit' = TRUE
    /\ quit' = IF spQuit THEN quit ELSE TRUE
    /\ teardowns' = teardowns + 1
    /\ lp' = IF spQuit THEN "panic" ELSE "broadcast"
    /\ UNCHANGED <<conf, err, chunkID, rChunk, bytesRead, cIdx, qWait, qWaitLen,
                   activeChunks, rwrapper, md5, dispI, dispId, getChClosed,
                   workers, condL, rd, ret, out, returned, md5Gets, given, bd,
                   put, cp, forced, tomb, State, Reason, sp, wr, wrStop, aLock,
                   mp, firstErr>>

RaceNext ==
    \/ WorkerNext
    \/ ReaderSteps
    \/ nextChunkQuit
    \/ raceRead
    \/ copyWrite
    \/ copyKill
    \/ raceClose
    \/ raceTeardown
    \/ copyCloseKill
    \/ copyCompleted
    \/ loopStart
    \/ loopDying
    \/ raceLoopClose
    \/ raceLoopTeardown
    \/ loopBroadcast
    \/ loopForceClose
    \/ loopReturn
    \/ Stop
    \/ StopKill
    \/ StopWait

SpecRace == InitRace /\ [][RaceNext]_vars

\* ------------------------------------------------ a handle held by two tasks
\* GetReader's handle with one task calling Read and a second task (cl)
\* calling Close while the first may be inside Read
InitShared ==
    /\ \E concurrency \in 1..MaxConcurrency, length \in 0..MaxSharedLen :
            GetterMade(1, 1, concurrency, FALSE, length)
    /\ st = NoSpeed
    /\ tr = NoTracked
    /\ pa = NoPutCall
    /\ cl = "idle"
    /\ rd = IdleReader
    /\ put = NoPutter
    /\ ret = Ret("none", 0, 0, nil)
    /\ out = <<>>
    /\ returned = 0
    /\ teardowns = 0
    /\ md5Gets = 0
    /\ given = <<"unread", <<>>>>
    /\ bd = [pc |-> "idle", total |-> 0, last |-> 0]
    /\ firstErr = nil
    /\ NoController

\* the second task in Close: the test of g.closed, g.closed = true and the
\* two channels closed
closerClose ==
    /\ cl = "idle"
    /\ IF closed
       THEN /\ cl' = "returned"
            /\ UNCHANGED <<closed, spQuit, quit, teardowns>>
       ELSE /\ closed' = TRUE
            /\ spQuit' = TRUE
            /\ quit' = TRUE
            /\ teardowns' = teardowns + 1
            /\ cl' = "broadcast"
    /\ UNCHANGED <<bufsz, contentLen, chunkTotal, NTry, Concurrency, Md5Check,
                   ng, st, tr, pa, err, chunkID, rChunk, bytesRead, cIdx, qWait,
                   qWaitLen, activeChunks, rwrapper, md5, dispI, dispId,
                   getChClosed, workers, condL, rd, ret, out, returned, md5Gets,
                   given, xvars, firstErr>>

\* the second task in Close: g.cond.Broadcast() and the return
closerBroadcast ==
    /\ cl = "broadcast"
    /\ workers' = condBroadcast(workers)
    /\ cl' = "returned"
    /\ UNCHANGED <<bufsz, contentLen, chunkTotal, NTry, Concurrency, Md5Check,
                   ng, st, tr, pa, err, chunkID, rChunk, bytesRead, cIdx, qWait,
                   qWaitLen, quit, closed, spQuit, activeChunks, rwrapper, md5,
                   dispI, dispId, getChClosed, condL, cvars, xvars, firstErr>>

SharedNext ==
    \/ WorkerNext
    \/ Read(1)
    \/ ReadLoop
    \/ ReadChunkComplete
    \/ nextChunk
    \/ nextChunkDec
    \/ nextChunkSignal
    \/ nextChunkInc
    \/ nextChunkQuit
    \/ closerClose
    \/ closerBroadcast

SpecShared == InitShared /\ [][SharedNext]_vars

\* ------------------------------------------------------ the call of PutAsync
\* newPutter's source is not part of the sources at hand: it returns a
\* putter, or no putter and the error of initiating the multipart upload.
\* PutAsync is translated from the code.
InitiateError == Error("initiate", 0, 0)

\* PutAsync is called: the state before newPutter returns; no controller
\* exists and no task runs
InitPutNew ==
    /\ NoPipeline
    /\ st = NoSpeed
    /\ tr = NoTracked
    /\ cl = "none"
    /\ pa = [NoPutCall EXCEPT !.pc = "newPutter", !.putter = FALSE]
    /\ \E PartSize \in 1..MaxPartSize, ntry \in 1..MaxNTry,
          concurrency \in 1..MaxConcurrency, length \in 0..MaxPutLen :
            mp = [psz |-> PartSize, ntry |-> ntry, conc |-> concurrency,
                  src |-> length, buf |-> 0, parts |-> <<>>, done |-> <<>>,
                  xml |-> <<>>, completed |-> FALSE, puts |-> 0, aborts |-> 0]
    /\ cp = "none"
    /\ forced = {}
    /\ tomb = [reason |-> ErrStillAlive, dead |-> FALSE]
    /\ State = ""
    /\ Reason = ""
    /\ lp = "none"
    /\ sp = "none"
    /\ wr = 0
    /\ wrStop = -1
    /\ aLock = "free"

\* what the call leaves alone
PutNewFrame ==
    UNCHANGED <<bufsz, contentLen, chunkTotal, NTry, Concurrency, Md5Check, ng,
                st, tr, cl, gvars, cvars, bd, forced, tomb, Reason, wr, wrStop,
                aLock, mp, firstErr>>

\* PutAsync: "putter, err := newPutter(*u, h, c, b)"
newPutter ==
    /\ pa.pc = "newPutter"
    /\ \/ /\ pa' = [pa EXCEPT !.pc = "made", !.putter = TRUE]
          /\ put' = [NoPutter EXCEPT !.open = TRUE]
       \/ /\ pa' = [pa EXCEPT !.pc = "made", !.err = InitiateError]
          /\ UNCHANGED put
    /\ PutNewFrame
    /\ UNCHANGED <<State, lp, cp, sp>>

\* PutAsync: the PutController is made with the putter and State "Ready",
\* pc.t.Go(pc.loop), the copy task is started, and "return pc, nil"
PutAsync ==
    /\ pa.pc = "made"
    /\ State' = "Ready"
    /\ lp' = "start"
    /\ cp' = "reading"
    /\ sp' = "idle"
    /\ pa' = [pa EXCEPT !.pc = "returned", !.ret = nil, !.loops = @ + 1,
                        !.copies = @ + 1]
    /\ PutNewFrame
    /\ UNCHANGED put

\* the tasks of a controller whose putter was made run
PutStarted ==
    /\ pa.pc = "returned"
    /\ pa.putter
    /\ PutAsyncNext

PutNewNext ==
    \/ newPutter
    \/ PutAsync
    \/ PutStarted

SpecPutNew == InitPutNew /\ [][PutNewNext]_vars

\* ------------------------------------------------------------ speed tracker
\* The controller of either pipeline with its speed tracker: the supervisor
\* loop's ticks, its end on a kill, the end of the copy task, Stop, and a
\* caller of Speed. The pipeline itself is left out: a tick samples any
\* number of bytes done.
Terminal == {"Completed", "Stopped", "Failed"}

\* rollingAvg: int64(smoothingFactor*new + (1-smoothingFactor)*existing)
rollingAvg(existing, new) ==
    (smoothingFactor * new + (100 - smoothingFactor) * existing) \div 100

\* speedTracker.update on the ticks-th tick: lastDone and lastTime keep the
\* values newSpeedTracker gave them, so newBytes is bytesNow and elapsed is
\* the time since the tracker was made; newSpeed is bytes per second
update(speed, bytesNow, ticks) ==
    rollingAvg(speed, (bytesNow * 1000) \div (ticks * loopPeriod))

InitSpeed ==
    /\ NoPipeline
    /\ \E kind \in {"getter", "putter"} : st = [NoSpeed EXCEPT !.kind = kind]
    /\ tr = NoTracked
    /\ pa = NoPutCall
    /\ cl = "none"
    /\ cp = "reading"
    /\ forced = {}
    /\ tomb = [reason |-> ErrStillAlive, dead |-> FALSE]
    /\ State = "Ready"
    /\ Reason = ""
    /\ lp = "start"
    /\ sp = "idle"
    /\ wr = 0
    /\ wrStop = -1
    /\ aLock = "free"
    /\ mp = <<>>

\* what the controller's tasks leave alone
SpeedFrame ==
    UNCHANGED <<bufsz, contentLen, chunkTotal, NTry, Concurrency, Md5Check, ng,
                tr, pa, cl, gvars, cvars, bd, put, forced, Reason, wr, wrStop,
                aLock, mp, firstErr>>

\* loop: State = "Downloading" or "Uploading"
speedLoopStart ==
    /\ lp = "start"
    /\ State' = IF st.kind = "getter" THEN "Downloading" ELSE "Uploading"
    /\ lp' = "select"
    /\ SpeedFrame
    /\ UNCHANGED <<st, tomb, cp, sp>>

\* loop: "case <-time.After(loopPeriod)": st.update(BytesDone())
speedLoopTick ==
    /\ lp = "select"
    /\ st.now < MaxTicks
    /\ \E bytesNow \in 0..MaxSpeedBytes :
        st' = [st EXCEPT !.now = @ + 1,
                         !.Speed = update(@, bytesNow, st.now + 1)]
    /\ SpeedFrame
    /\ UNCHANGED <<State, tomb, lp, cp, sp>>

\* loop: "case <-t.Dying()": the getter's loop sets g.st = nil, the putter's
\* loop leaves p.st as it is
speedLoopDying ==
    /\ lp = "select"
    /\ Dying
    /\ st' = [st EXCEPT !.nil = (st.kind = "getter")]
    /\ lp' = "reason"
    /\ SpeedFrame
    /\ UNCHANGED <<State, tomb, cp, sp>>

\* loop: State = "Stopped" when the kill reason is ErrStopped, and the return
speedLoopReturn ==
    /\ lp = "reason"
    /\ State' = IF tomb.reason = ErrStopped THEN "Stopped" ELSE State
    /\ tomb' = [tomb EXCEPT !.dead = TRUE]
    /\ lp' = "done"
    /\ SpeedFrame
    /\ UNCHANGED <<st, cp, sp>>

\* the copy task: io.Copy and Close have returned, with an error or none.
\* GetAsync: Kill(err), or Kill(nil) and then State = "Completed";
\* PutAsync: Kill(err) if any, then Complete on every path
speedCopyEnds ==
    /\ cp = "reading"
    /\ \E e \in {nil, SourceError} :
        /\ tomb' = tombKill(tomb, e)
        /\ cp' = IF st.kind = "getter" /\ e # nil THEN "end" ELSE "state"
    /\ SpeedFrame
    /\ UNCHANGED <<st, State, lp, sp>>

\* the copy task: State = "Completed"
speedCompleted ==
    /\ cp = "state"
    /\ State' = "Completed"
    /\ cp' = "end"
    /\ SpeedFrame
    /\ UNCHANGED <<st, tomb, lp, sp>>

\* Stop: t.Kill(ErrStopped)
speedStop ==
    /\ sp = "idle"
    /\ tomb' = tombKill(tomb, ErrStopped)
    /\ sp' = "wait"
    /\ SpeedFrame
    /\ UNCHANGED <<st, State, lp, cp>>

\* Stop: t.Wait()
speedStopWait ==
    /\ sp = "wait"
    /\ tomb.dead
    /\ sp' = "returned"
    /\ SpeedFrame
    /\ UNCHANGED <<st, State, tomb, lp, cp>>

\* GetterController.Speed: 0 when g.st is nil, otherwise g.st.Speed;
\* PutController.Speed: p.st.Speed. st.term records whether State was
\* terminal when the call was made
Speed ==
    /\ st' = [st EXCEPT !.ret = IF st.kind = "getter" /\ st.nil
                                THEN 0 ELSE st.Speed,
                        !.term = State \in Terminal]
    /\ SpeedFrame
    /\ UNCHANGED <<State, tomb, lp, cp, sp>>

SpeedNext ==
    \/ speedLoopStart
    \/ speedLoopTick
    \/ speedLoopDying
    \/ speedLoopReturn
    \/ speedCopyEnds
    \/ speedCompleted
    \/ speedStop
    \/ speedStopWait
    \/ Speed

SpecSpeed == InitSpeed /\ [][SpeedNext]_vars

\* ----------------------------------------------------------- tracked reader
\* A readerWrapper over an io.Reader, or a seekReaderWrapper over an
\* io.ReadSeeker, of len bytes: closed and bytesdone are the values its two
\* pointers lead to, pos is the position of the source. base is the offset
\* of the last Seek and sum the bytes Read has returned since; ret is the
\* last call made, what it returned and whether it went to the source.
ErrUnexpectedEOF == Error("unexpected EOF", 0, 0)

TrackedRet(op, n, e, under) == [op |-> op, n |-> n, err |-> e, under |-> under]

RefusesNever(t) == FALSE

\* Read: "if *r.closed"
Refuses(t) == t.closed

\* newReaderWrapper / newSeekReaderWrapper over a source of any length
InitTracked ==
    /\ NoPipeline
    /\ NoController
    /\ st = NoSpeed
    /\ pa = NoPutCall
    /\ cl = "none"
    /\ \E kind \in {"reader", "seeker"}, len \in 0..MaxSourceLen :
        tr = [NoTracked EXCEPT !.kind = kind, !.len = len]

TrackedFrame ==
    UNCHANGED <<bufsz, contentLen, chunkTotal, NTry, Concurrency, Md5Check, ng,
                st, pa, cl, gvars, cvars, xvars, firstErr>>

\* ForceClose: *r.closed = true
ForceClose ==
    /\ tr.pc = "idle"
    /\ tr' = [tr EXCEPT !.closed = TRUE,
                        !.ret = TrackedRet("ForceClose", 0, nil, FALSE)]
    /\ TrackedFrame

\* Read(p): refused once closed; otherwise the source's Read, which gives
\* up to len(p) bytes, at least one while it has any, EOF at or after its
\* last byte; *r.bytesdone += n
trackedRead(plen) ==
    /\ tr.pc = "idle"
    /\ IF Refuses(tr)
       THEN tr' = [tr EXCEPT !.ret = TrackedRet("Read", 0, ErrUnexpectedEOF,
                                                FALSE)]
       ELSE LET left == tr.len - tr.pos
                most == IF plen < left THEN plen ELSE left
            IN \E n \in (IF most > 0 THEN 1 ELSE 0)..most, e \in {nil, EOF} :
                /\ e = EOF => tr.pos + n = tr.len
                /\ (n = 0 /\ plen > 0) => e = EOF
                /\ tr' = [tr EXCEPT !.pos = @ + n,
                                    !.bytesdone = @ + n,
                                    !.sum = @ + n,
                                    !.ret = TrackedRet("Read", n, e, TRUE)]
    /\ TrackedFrame

\* seekReaderWrapper.Seek(offset, 0): the source's Seek gives the new
\* absolute offset; *r.bytesdone = abs
seekReaderWrapperSeek(offset) ==
    /\ tr.pc = "idle"
    /\ tr.kind = "seeker"
    /\ tr' = [tr EXCEPT !.pos = offset,
                        !.bytesdone = offset,
                        !.base = offset,
                        !.sum = 0,
                        !.ret = TrackedRet("Seek", offset, nil, TRUE)]
    /\ TrackedFrame

\* readerWrapper.Seek: "abs, err = r.Seek(offset, whence)": the embedded
\* io.Reader has no Seek, so the call is to readerWrapper.Seek itself
readerWrapperSeek ==
    /\ tr.pc \in {"idle", "seek"}
    /\ tr.kind = "reader"
    /\ tr.depth < MaxStack
    /\ tr' = [tr EXCEPT !.pc = "seek", !.depth = @ + 1,
                        !.ret = TrackedRet("Seek", 0, nil, FALSE)]
    /\ TrackedFrame

\* readerWrapper.Seek: the goroutine's stack is exhausted and the runtime
\* ends the program
readerWrapperSeekOverflow ==
    /\ tr.pc = "seek"
    /\ tr.depth = MaxStack
    /\ tr' = [tr EXCEPT !.pc = "overflow"]
    /\ TrackedFrame

TrackedNext ==
    \/ ForceClose
    \/ \E plen \in 0..MaxTrackedRead : trackedRead(plen)
    \/ \E offset \in 0..tr.len : seekReaderWrapperSeek(offset)
    \/ readerWrapperSeek
    \/ readerWrapperSeekOverflow

SpecTracked == InitTracked /\ [][TrackedNext]_vars

\* ----------------------------------------------------------------- claims
\* the number of buffers acquired by a worker and not yet given back by the
\* reader: held by a fetching or sending worker, waiting in qWait, taken out
\* of qWait by nextChunk, or being copied out as rChunk
LiveBuffers ==
    LET holding == {w \in WorkerSet : w.pc \in {"fetch", "body", "send"}}
        held == [w \in holding |-> CopiesIn(w, workers)]
    IN (IF holding = {} THEN 0 ELSE BagCardinality(held))
           + Cardinality(qWait)
           + (IF rd.c # NoChunk THEN 1 ELSE 0)
           + (IF rChunk # NoChunk THEN 1 ELSE 0)

\* initChunks: the Range header of a chunk, "bytes=%d-%d" of i and i+size-1
Range(c) == [first |-> c.start, last |-> c.start + c.size - 1]

\* the chunks the dispatcher has handed out that a worker, qWait or the
\* reader still holds
ChunksHeld ==
    {w.c : w \in {v \in WorkerSet : v.c # NoChunk}}
        \cup qWait \cup ({rd.c, rChunk} \ {NoChunk})

\* the number of chunks nextChunk has handed to Read so far
ChunksDelivered == chunkID + (IF rChunk # NoChunk THEN 1 ELSE 0)

\* C1: the bytes Read has delivered so far are, in every state and whatever
\* the order in which the workers completed, the first bytes of the object in
\* file order, so no byte of a later chunk precedes a byte of an earlier one.
C1_ReadInFileOrder ==
    /\ out = ObjectBytes(Len(out))
    /\ Len(out) = bytesRead

\* a later chunk is parked in qWait while the reader, having delivered bytes,
\* still waits for the chunk it needs
C1_Witness ==
    /\ rd.pc = "select"
    /\ Len(out) > 0
    /\ \E c \in qWait : c.id > chunkID

\* C2: between calls the byte counts returned by Read sum to the bytes
\* delivered, never more than contentLen; a Read that returns EOF has
\* bytesRead = contentLen and the counts sum to contentLen; a Read with a
\* non-empty destination and no error fills it, so that once contentLen bytes
\* were returned a Read with a non-empty destination returns 0 bytes and EOF.
C2_ReadSumsToContentLen ==
    /\ bytesRead <= contentLen
    /\ Len(out) = bytesRead
    /\ rd.pc = "idle" => returned = bytesRead
    /\ (ret.op = "Read" /\ ret.err = EOF) =>
            bytesRead = contentLen /\ returned = contentLen
    /\ (ret.op = "Read" /\ ret.err = nil) => ret.n = ret.len
    /\ (ret.op = "Read" /\ ret.len > 0 /\ ret.n = 0 /\ ~closed /\ err = nil) =>
            ret.err = EOF

\* the whole of the largest object was returned and a further Read with a
\* non-empty destination got 0 bytes and EOF
C2_Witness ==
    /\ ret = Ret("Read", MaxReadLen, 0, EOF)
    /\ contentLen = MaxContentLen
    /\ returned = contentLen
    /\ chunkTotal > 1
    /\ ~closed

\* C2 as stated: after a Read returned EOF every later Read before Close
\* returns 0 bytes and EOF.
C2_EveryLaterReadEOF ==
    [][(ret.op = "Read" /\ ret.err = EOF /\ ~closed' /\ ret' # ret
            /\ ret'.op = "Read")
        => (ret'.n = 0 /\ ret'.err = EOF)]_vars

C4_QWaitBound ==
    /\ qWaitLen <= qWaitMax
    /\ Cardinality(qWait) <= qWaitMax

\* C5: once Close has returned on a handle, a step of the consumer returns
\* at once, with EINVAL and 0 bytes, and neither bytesRead, the bytes
\* delivered or accepted, nor the number of teardowns changes.
C5_ClosedHandleRejects ==
    [][((closed /\ rd.pc = "idle") \/ put.closed)
        => /\ bytesRead' = bytesRead
           /\ out' = out
           /\ returned' = returned
           /\ teardowns' = teardowns
           /\ md5Gets' = md5Gets
           /\ put' = put
           /\ rd' = rd
           /\ <<closed', quit', spQuit'>> = <<closed, quit, spQuit>>
           /\ (ret' # ret => (ret'.err = EINVAL /\ ret'.n = 0))]_vars

\* a Read on a closed getter whose sticky error is set returned EINVAL, after
\* exactly one teardown
C5_Witness ==
    /\ closed
    /\ err # nil
    /\ ret = Ret("Read", MaxReadLen, 0, EINVAL)
    /\ teardowns = 1

\* C6: once the sticky error is set, every later Read on the open getter
\* returns that same error value.
C6_StickyErrorUnchanged ==
    [][(firstErr # nil /\ rd.pc = "idle" /\ ~closed /\ ret' # ret
            /\ ret'.op = "Read")
        => ret'.err = firstErr]_vars

\* C7: the first Close returns the sticky error when one is set; otherwise,
\* with bytesRead < contentLen, it returns the short-read error naming
\* bytesRead and contentLen, and no sidecar was requested.
C7_FirstClose ==
    (ret.op = "Close" /\ ret.err # EINVAL /\ ~put.open) =>
        IF err # nil
        THEN ret.err = err
        ELSE bytesRead < contentLen =>
                (ret.err = ShortReadError(bytesRead, contentLen) /\ md5Gets = 0)

\* the first Close of a getter with MD5 checking on returned the short-read
\* error part-way through the object
C7_Witness ==
    /\ ret.op = "Close"
    /\ Md5Check
    /\ err = nil
    /\ bytesRead > 0
    /\ bytesRead < contentLen
    /\ ret.err = ShortReadError(bytesRead, contentLen)

\* C8: Close never waits: whatever the workers and the dispatcher are doing,
\* the consumer's next step of Close is enabled, at its entry, at the
\* broadcast and at the result.
C8_CloseNeverBlocks ==
    /\ (rd.pc = "idle" /\ ~put.open) => ENABLED Close
    /\ rd.pc = "broadcast" => ENABLED CloseBroadcast
    /\ rd.pc = "result" => ENABLED CloseReturn

\* the first Close has returned with nothing read while one worker is
\* reading a body and another is blocked on the hand-off of its chunk
C8_Witness ==
    /\ rd.pc = "idle"
    /\ ret.op = "Close"
    /\ ret.err # EINVAL
    /\ bytesRead = 0
    /\ At("send") # {}
    /\ At("body") # {}

\* C9: with Md5Check the bytes hashed are those of the chunks handed to Read
\* so far, each once and in id order; when Close has compared digests the
\* bytes hashed are the bytes delivered, and Close returned nil exactly when
\* the sidecar holds their digest.
C9_Md5OfDeliveredBytes ==
    /\ md5Gets <= 1
    /\ ~Md5Check => (md5Gets = 0 /\ md5 = <<>>)
    /\ Md5Check =>
        /\ md5 = ObjectBytes(Len(md5))
        /\ Len(md5) = min64(contentLen, ChunksDelivered * bufsz)
    /\ md5Gets = 1 =>
        /\ md5 = out
        /\ (ret.op = "Close" /\ ret.err # EINVAL) =>
                (ret.err = nil <=> given = Md5Sum(out))

\* Close compared the digest of an object of several chunks, the last one
\* shorter than the buffer, and returned nil
C9_Witness ==
    /\ Md5Check
    /\ md5Gets = 1
    /\ ret = Ret("Close", 0, 0, nil)
    /\ chunkTotal > 1
    /\ contentLen % bufsz # 0

\* C10: the value BytesDone returns never decreases from one call to the
\* next.
C10_BytesDoneMonotonic == [][bd'.last >= bd.last]_vars

\* the copy task's io.Copy and Close both ended without error
CopySucceeded ==
    /\ cp \in {"state", "end"}
    /\ ret = Ret("Close", 0, 0, nil)

\* C11: whenever Done() is signalled after the copy and the close finished
\* without error (and Stop was never called), State is "Completed" and
\* Reason is empty.
C11_DoneAfterSuccessIsCompleted ==
    (tomb.dead /\ CopySucceeded /\ sp = "idle") =>
        (State = "Completed" /\ Reason = "")

\* C12: once Stop() was called, its kill reason stands and Done() is
\* signalled on a download that had not delivered the whole object, State
\* is "Failed" and Reason is "Stopped".
C12_StoppedIsFailed ==
    (sp # "idle" /\ tomb.dead /\ tomb.reason = ErrStopped /\ wr < contentLen) =>
        (State = "Failed" /\ Reason = "Stopped")

\* C14: when Stop() has returned Done() is signalled, and from then on the
\* value BytesDone returns never decreases from one call to the next.
C14_MonotoneAfterStop ==
    [][sp = "returned" => (tomb.dead /\ bd'.last >= bd.last)]_vars

\* C15: when Stop() has returned no worker is fetching a chunk, blocked
\* handing over a chunk or parked at the gate.
C15_WorkersUnwound ==
    sp = "returned" =>
        \A w \in WorkerSet :
            w.pc \notin {"fetch", "body", "send", "park", "wait"}

\* C16: once Stop() has returned the copy task writes no further byte of
\* the object to the consumer's writer.
C16_NoWriteAfterStop == sp = "returned" => wr = wrStop

\* C13: after Stop() on a PutController whose upload is running (the copy
\* task is still inside io.Copy), once Done() is signalled State is "Failed"
\* and Reason is "Stopped".
C13_PutStoppedIsFailed ==
    (sp # "idle" /\ tomb.dead /\ tomb.reason = ErrStopped
       /\ cp \in {"reading", "write"})
        => (State = "Failed" /\ Reason = "Stopped")

C18_CompletionListsParts ==
    mp.completed =>
        mp.xml = [i \in 1..Len(mp.parts) |->
                     [number |-> i, etag |-> mp.parts[i].etag]]

\* a completed upload whose second part finished before its first, the
\* first after a retry
C18_Witness ==
    /\ mp.completed
    /\ Len(mp.done) >= 2
    /\ mp.done[1].number > mp.done[2].number
    /\ mp.done[1].etag # mp.done[2].etag

\* C19: the dispatcher hands out the ids 0, 1, ... one by one, dispId chunks
\* covering the first dispI bytes, and closes getCh after exactly
\* ceil(contentLen / bufsz) chunks covering [0, contentLen); chunk i starts at
\* i * bufsz, ends before min((i + 1) * bufsz, contentLen) and its Range
\* header names its first and last byte.
C19_ChunksPartitionObject ==
    /\ chunkTotal * bufsz >= contentLen
    /\ chunkTotal > 0 => (chunkTotal - 1) * bufsz < contentLen
    /\ chunkTotal >= 0
    /\ dispId \in 0..chunkTotal
    /\ dispI = min64(dispId * bufsz, contentLen)
    /\ getChClosed => (dispId = chunkTotal /\ dispI = contentLen)
    /\ \A c \in ChunksHeld :
        /\ c.id \in 0..(dispId - 1)
        /\ c.start = c.id * bufsz
        /\ c.size >= 1
        /\ c.start + c.size = min64((c.id + 1) * bufsz, contentLen)
        /\ Range(c) = [first |-> c.id * bufsz,
                       last |-> min64((c.id + 1) * bufsz, contentLen) - 1]
    /\ \A c1, c2 \in ChunksHeld : c1.id = c2.id => c1 = c2

\* a 3-byte object in parts of 2 bytes: getCh is closed after two chunks and
\* the second, of one byte, is held while the first is still held too
C19_Witness ==
    /\ contentLen = 3
    /\ bufsz = 2
    /\ getChClosed
    /\ dispId = 2
    /\ Chunk(1, 2, 1) \in ChunksHeld
    /\ Chunk(0, 0, 2) \in ChunksHeld

\* C20: for a zero-byte object no chunk is dispatched and no worker fetches
\* anything, a Read with a non-empty destination on the open getter returns 0
\* bytes and EOF, and the first Close returns no short-read error: nil
\* without Md5Check, and with it the sidecar is requested once and Close
\* returns nil exactly when the sidecar holds the digest of no bytes.
C20_ZeroByteObject ==
    (contentLen = 0 /\ ~put.open /\ cp = "none") =>
        /\ chunkTotal = 0
        /\ dispId = 0
        /\ activeChunks = {}
        /\ \A w \in WorkerSet : w.pc \in {"recv", "done"}
        /\ (ret.op = "Read" /\ ret.len > 0 /\ ret.err # EINVAL) =>
                (ret.n = 0 /\ ret.err = EOF)
        /\ (ret.op = "Close" /\ ret.err # EINVAL) =>
                IF Md5Check
                THEN /\ md5Gets = 1
                     /\ md5 = <<>>
                     /\ ret.err \in {nil, Md5MismatchError, Md5NotFoundError}
                     /\ ret.err = nil <=> given = Md5Sum(<<>>)
                ELSE ret.err = nil /\ md5Gets = 0

\* the first Close of a zero-byte object with Md5Check returned nil after
\* the sidecar was compared with the digest of no bytes
C20_Witness ==
    /\ contentLen = 0
    /\ ~put.open
    /\ Md5Check
    /\ ret = Ret("Close", 0, 0, nil)
    /\ md5Gets = 1
    /\ given = Md5Sum(<<>>)
    /\ getChClosed

\* C24: when a chunk has failed for good and the reader is blocked in
\* nextChunk waiting for a chunk, with every worker gone, quit has been
\* closed so that the blocked Read returns the sticky error.
C24_FailureClosesQuit ==
    (err # nil /\ rd.pc = "select" /\ \A w \in WorkerSet : w.pc = "done")
        => quit

\* C25: once the getter's error is set it never changes, neither by a later
\* chunk failure nor by Stop().
C25_StickyErrorNeverChanges == [][err # nil => err' = err]_vars

\* C26: once Close has returned (quit is closed) no worker is blocked sending
\* its chunk to the reader and none is parked or about to park at the gate.
C26_WorkersObserveQuit ==
    (quit /\ rd.pc = "idle" /\ ret.op = "Close")
        => \A w \in WorkerSet : w.pc \notin {"send", "park", "wait"}

\* C27: once Close has returned no worker is left waiting on the condition
\* and no worker has left getChunk with the queue mutex still locked.
C27_CloseWakesAndUnlocks ==
    (closed /\ rd.pc = "idle" /\ ret.op = "Close")
        => /\ \A w \in WorkerSet : w.pc # "wait"
           /\ condL # "leaked"

\* C30: when Done() is signalled after a kill whose reason is an error other
\* than the cancel sentinel, State is "Failed" and Reason carries the cause.
C30_KilledByErrorIsFailed ==
    (tomb.dead /\ tomb.reason \notin {nil, ErrStopped, ErrStillAlive})
        => (State = "Failed" /\ Reason # "")

\* C28: a worker fetching a chunk has failed fewer than NTry attempts of it,
\* a chunk that was published is fetched no more, and the getter's error is
\* set by a worker only on the failure of the NTry-th attempt of its chunk
\* and only while quit is not closed.
C28_AtMostNTryAttempts ==
    [][/\ \A w \in WorkerSet :
            w.pc \in {"fetch", "body"} =>
                /\ w.i < NTry
                /\ w.c \notin qWait
                /\ w.c.id >= ChunksDelivered
       /\ err' # err =>
            /\ ~quit
            /\ \E w \in WorkerSet :
                    /\ w.pc \in {"fetch", "body"}
                    /\ w.i = NTry - 1
                    /\ err' = ChunkError(w.c.id)]_vars

\* with two attempts allowed, chunk 1 failed for good after chunk 0 was
\* published
C28_Witness ==
    /\ NTry = 2
    /\ err = ChunkError(1)
    /\ ~quit
    /\ ChunksDelivered + Cardinality(qWait) > 0

\* C21: whatever Config newGetter is called with, the part size, NTry and
\* Concurrency in effect are the value passed in, or 1 when that is below 1,
\* and the getter returned runs that many workers and one dispatcher.
C21_ConfigMinimums ==
    ng.pc # "none" =>
        /\ bufsz = (IF ng.c.PartSize < 1 THEN 1 ELSE ng.c.PartSize)
        /\ NTry = (IF ng.c.NTry < 1 THEN 1 ELSE ng.c.NTry)
        /\ Concurrency = (IF ng.c.Concurrency < 1 THEN 1 ELSE ng.c.Concurrency)
        /\ ng.pc = "returned" =>
            /\ BagCardinality(workers)
                    = (IF ng.c.Concurrency < 1 THEN 1 ELSE ng.c.Concurrency)
            /\ ng.dispatchers = 1

\* a getter made from a Config with part size 0, no attempt and a negative
\* concurrency is running: its one worker has taken a chunk of one byte
C21_Witness ==
    /\ ng.pc = "returned"
    /\ ng.c = [PartSize |-> 0, NTry |-> 0, Concurrency |-> -1]
    /\ \E w \in WorkerSet : w.pc = "fetch" /\ w.c.size = 1

\* C22: a first response whose status is not 200 ends newGetter with the
\* error of that response, one with status 200 and no content length ends it
\* with the undefined-content-length error, and a call that failed has made
\* no buffer pool and started no worker and no dispatcher; a getter is
\* returned only for status 200 with a known length.
C22_ConstructionFails ==
    /\ (ng.pc \in {"failed", "returned"} /\ ng.status \notin {0, 200}) =>
            (ng.pc = "failed" /\ ng.err = RespError(ng.status))
    /\ (ng.pc \in {"failed", "returned"} /\ ng.status = 200
            /\ ng.length = -1) =>
            (ng.pc = "failed" /\ ng.err = UndefinedLengthError)
    /\ ng.pc = "failed" =>
            /\ ng.err # nil
            /\ ~ng.pool
            /\ ng.dispatchers = 0
            /\ workers = EmptyBag
    /\ ng.pc = "returned" => (ng.status = 200 /\ ng.length = contentLen)

\* the first GET was answered 404 and newGetter returned that error
C22_Witness ==
    /\ ng.pc = "failed"
    /\ ng.status = 404
    /\ ng.err = RespError(404)

\* C29: a first GET answered with a 5xx status is retried: newGetter fails
\* with that status only after NTry requests.
C29_RetryFollowsStatus ==
    (ng.pc = "failed" /\ ng.status = 503) => ng.try = NTry

\* C23: with no chunk failure and a consumer that keeps calling Read, the
\* reader blocked waiting for a chunk always gets one, the reader ends up at
\* EOF with every byte delivered, and every worker, parked or not, ends up
\* out of its loop.
C23_DownloadNeverDeadlocks ==
    /\ (rd.pc = "select") ~> (rd.pc # "select")
    /\ <>[](bytesRead = contentLen /\ ret.op = "Read" /\ ret.err = EOF)
    /\ <>[](\A w \in WorkerSet : w.pc = "done")

\* initChunks: the sizes of the first k chunks, added up as the loop makes
\* them
SizesBelow(k) ==
    LET RECURSIVE Sum(_, _)
        Sum(id, i) == IF id >= k \/ i >= contentLen THEN 0
                      ELSE min64(bufsz, contentLen - i)
                               + Sum(id + 1, i + min64(bufsz, contentLen - i))
    IN Sum(0, 0)

\* C37: in every state bytesRead is the sizes of the chunks below chunkID
\* plus the offset in the chunk being copied out, lies in 0..contentLen, and
\* chunkID is at most chunkTotal; no Read returns the "too many bytes" or the
\* "no more chunks remaining" error.
C37_BytesReadIsChunksPlusOffset ==
    /\ bytesRead = SizesBelow(chunkID)
                       + (IF rChunk # NoChunk THEN cIdx ELSE 0)
    /\ 0 <= bytesRead /\ bytesRead <= contentLen
    /\ chunkID <= chunkTotal
    /\ rChunk # NoChunk => (rChunk.id = chunkID /\ cIdx <= rChunk.size)
    /\ ret.err.kind \notin {"too many bytes", "no more chunks"}

\* the reader is part-way through the second chunk of two bytes, between
\* two calls of Read
C37_Witness ==
    /\ chunkID = 1
    /\ rChunk # NoChunk
    /\ cIdx = 1
    /\ rChunk.size = 2
    /\ bytesRead = 3
    /\ rd.pc = "idle"


\* the number of places chunk id is in: a worker that received it from
\* getCh, qWait after its send on readCh, the reader taking it out of qWait
\* or copying it out, or behind the reader once it was copied out
Holders(id) ==
    LET with == {w \in WorkerSet : w.c.id = id}
    IN (IF with = {} THEN 0
        ELSE BagCardinality([w \in with |-> CopiesIn(w, workers)]))
           + Cardinality({c \in qWait : c.id = id})
           + (IF rd.c.id = id THEN 1 ELSE 0)
           + (IF rChunk.id = id THEN 1 ELSE 0)
           + (IF id < chunkID THEN 1 ELSE 0)

\* the chunks that are registered and not yet copied out: with a worker that
\* has registered its chunk, in qWait, or with the reader
InFlight ==
    {w.c.id : w \in {v \in WorkerSet :
                        v.pc \in {"acquire", "fetch", "body", "send"}}}
        \cup {c.id : c \in qWait}
        \cup ({rd.c.id, rChunk.id} \ {NoChunk.id})

\* C38: a chunk the dispatcher emitted is in one place at most, hence with
\* one worker and published to readCh at most once, and in exactly one place
\* while no chunk has failed for good; it is in activeChunks from the time
\* its worker has registered it until the reader has copied out its last
\* byte, and activeChunks is empty once the whole object was read.
C38_ChunkHandledOnce ==
    /\ \A id \in 0..(dispId - 1) :
        /\ Holders(id) <= 1
        /\ (err = nil /\ ~quit) => Holders(id) = 1
    /\ InFlight \subseteq activeChunks
    /\ \A id \in activeChunks : id < dispId /\ id >= chunkID
    /\ (bytesRead = contentLen /\ rd.pc # "complete") => activeChunks = {}

\* the first chunk was copied out, the second waits in qWait, the third is
\* with a worker that is sending it, and the last two are in activeChunks
C38_Witness ==
    /\ chunkID = 1
    /\ rChunk = NoChunk
    /\ \E c \in qWait : c.id = 1
    /\ \E w \in WorkerSet : w.pc = "send" /\ w.c.id = 2
    /\ activeChunks = {1, 2}


\* C33: a PutController whose tasks have ended with State "Completed" was
\* killed with no error: neither the copy nor the putter's Close failed, and
\* it was not stopped.
C33_CompletedOnlyOnSuccess ==
    (cp = "end" /\ lp = "done" /\ State = "Completed") => tomb.reason = nil


\* C31: a call of Speed made when the controller's State is terminal
\* returns 0.
C31_SpeedZeroWhenTerminal == st.term => st.ret = 0


\* C32: once a tracked reader was force-closed, a Read returns 0 bytes and
\* the unexpected-EOF error without reading from the source, and leaves the
\* bytes-done counter, the source's position and the closed flag as they
\* were; another ForceClose changes nothing of the reader.
C32_ForceClosedReadFails ==
    [][tr.closed =>
        /\ tr'.ret.op = "Read" =>
            /\ tr'.ret = TrackedRet("Read", 0, ErrUnexpectedEOF, FALSE)
            /\ tr' = [tr EXCEPT !.ret = tr'.ret]
        /\ tr'.ret.op = "ForceClose" => tr' = [tr EXCEPT !.ret = tr'.ret]]_vars

\* a reader that had given out a byte and had more was force-closed, and a
\* Read of two bytes was then refused
C32_Witness ==
    /\ tr.closed
    /\ tr.ret = TrackedRet("Read", 0, ErrUnexpectedEOF, FALSE)
    /\ tr.bytesdone = 1
    /\ tr.pos < tr.len

\* C40: BytesDone is the offset of the last Seek (0 before any) plus the
\* bytes Read has returned since; a Seek returns the source's new offset
\* with BytesDone equal to it; and no Seek runs without end.
C40_BytesDoneFollowsReadAndSeek ==
    /\ tr.bytesdone = tr.base + tr.sum
    /\ (tr.ret.op = "Seek" /\ tr.pc = "idle") =>
            (tr.ret.n = tr.pos /\ tr.bytesdone = tr.pos)
    /\ tr.pc # "overflow"


\* C39: when newPutter failed, PutAsync returns that error and has started
\* neither the supervisor loop nor the copy task; a controller without a
\* putter is never returned together with a nil error.
C39_PutAsyncReturnsConstructionError ==
    /\ (pa.pc = "returned" /\ pa.err # nil) =>
            (pa.ret = pa.err /\ pa.loops = 0 /\ pa.copies = 0)
    /\ (pa.pc = "returned" /\ ~pa.putter) => pa.ret # nil


\* C34: the getter's teardown (closed set, the pool's quit and the quit
\* channel closed) is entered at most once, whichever of the supervisor loop
\* and the copy task calls Close, and when both do.
C34_TeardownAtMostOnce == teardowns <= 1

\* C35: a Read waiting for the next chunk when quit is closed never goes on
\* to copy from a chunk it did not get.
C35_QuitReadReturnsError == rd.pc # "panic"

\* C36: between calls of Read, bytesRead is the sum of the byte counts Read
\* has returned.
C36_ReadReportsBytesCopied == rd.pc = "idle" => returned = bytesRead


====
